---- MODULE Spec2Model ----
(***************************************************************************)
(* Model of the TMDB API client (src/mcp_server/api_client.py): the        *)
(* sliding-window rate limiter, the retry/backoff loop and the response    *)
(* cache of TMDBClient, run by cooperative asyncio tasks that share one    *)
(* client.  A step of the model is the code a task runs between two        *)
(* suspension points (await of a sleep or of the transport).                *)
(*                                                                         *)
(* SpecRate, SpecRateSingle: tasks (two, one) calling _check_rate_limit.   *)
(* Spec: one caller dispatching through _request, any upstream behaviour.  *)
(* SpecConcurrent: two callers whose dispatches overlap, upstream up.      *)
(* SpecKey: two callers filling params dicts and calling _get_cache_key.   *)
(* SpecTools: one caller of the four tool endpoints (tools.py,             *)
(* http_server.py), upstream answering, failing or unreachable.            *)
(* SpecGenres: one caller of discover with lists of genre names.           *)
(***************************************************************************)
EXTENDS Integers, Sequences, FiniteSets, TLC

\* ------------------------------------------------------------ constants
\* class constants of TMDBClient
MAX_RETRIES == 3
INITIAL_BACKOFF == 1
MAX_BACKOFF == 60
RATE_LIMIT_WINDOW == 40
\* the literal 10 of _check_rate_limit: the length of the window in seconds
WINDOW_SECONDS == 10
\* self._cache_ttl
CACHE_TTL == 300

\* ------------------------------------------------------------ bounds
\* the clock stops being advanced by Tick beyond MaxTime
MaxTime == 15
\* the amount of time one Tick lets pass
TickStep == 5
\* the number of dispatches one task starts
MaxDispatches == 2
\* Idle lets the clock reach MaxIdle
MaxIdle == 300

Tasks == {"t1", "t2"}

None == "None"

\* self.api_key
API_KEY == "secret"

\* the requests the callers make: an endpoint and the params dict, as the
\* sequence of its items in insertion order
\* get_details(1, "movie")
DetailsRequest == [endpoint |-> "/movie/1", params |-> <<>>]
\* search_title("q")
SearchRequest == [endpoint |-> "/search/movie", params |-> << <<"query", "q">> >>]
Requests == {DetailsRequest, SearchRequest}

\* the JSON payloads the upstream serves
Payloads == {"p1", "p2"}
\* the Retry-After header of a 429: absent (<<>>), or its number of seconds
RetryAfterHeaders == {<<>>, <<3>>}

VARIABLES
    now,            \* time.time(), in seconds
    request_times,  \* self.request_times
    cache,          \* self._cache: cache key -> (data, timestamp)
    admitted,       \* history: the last RATE_LIMIT_WINDOW + 1 admission timestamps
    callers,        \* the tasks that use the client
    pc,             \* where each task is suspended
    wakeAt,         \* when a sleeping task's timer is due
    req,            \* _request's arguments: endpoint, params (api_key added), use_cache
    attempt,        \* _request's loop variable
    backoff,        \* _request's local backoff
    sent,           \* history: transport calls of the task's current dispatch
    outcomes,       \* history: the responses the current dispatch received
    delays,         \* history: the delays the retry loop of the current dispatch slept
    result,         \* what the task's last dispatch returned or raised
    doneAt,         \* history: when the task's last dispatch ended
    dispatched,     \* history: the number of dispatches the task has started
    body,           \* history: the JSON body the 2xx response of the current dispatch carried
    cache_key,      \* the value _get_cache_key returned to the task
    tool,           \* the tool call the task serves: its arguments and how far it is
    responses,      \* history: the tool calls that ended, with their HTTP responses
    client,         \* http_server._client: None or the installed TMDBClient
    constructed,    \* history: the number of TMDBClient instances constructed
    provided,       \* what the provider returned to a function of tools.py
    formatted,      \* what that function made of it
    api_key,        \* os.getenv("TMDB_API_KEY"): None when the variable is not set
    tool_calls,     \* health._metrics["tool_calls"]: tool name -> its counters
    errors,         \* health._metrics["errors"]
    recorded        \* history: every error record_error was called with

limiterVars == <<request_times, admitted>>
taskVars == <<req, attempt, backoff, sent, outcomes, delays, result, doneAt, dispatched,
              body>>
formatVars == <<provided, formatted>>
metricVars == <<tool_calls, errors, recorded>>
layerVars == <<cache_key, tool, responses, client, constructed, formatVars, metricVars,
               api_key>>
vars == <<now, request_times, cache, admitted, callers, pc, wakeAt, req, attempt,
          backoff, sent, outcomes, delays, result, doneAt, dispatched, body,
          cache_key, tool, responses, client,
         constructed, provided, formatted, api_key, tool_calls, errors, recorded>>

Max(a, b) == IF a >= b THEN a ELSE b
Min(a, b) == IF a <= b THEN a ELSE b

Pending == [kind |-> "pending", val |-> None]
NoRequest == [endpoint |-> None, params |-> <<>>, use_cache |-> FALSE]
\* no cache key computed yet
NoKey == <<>>
\* nothing formatted yet
NoInput == [fn |-> "none"]
NoOutput == [fn |-> "none"]
\* no tool call served yet
NoCall == [tool |-> None, type |-> None, sort_by |-> None, genre |-> <<>>, stage |-> "none"]

\* ------------------------------------------------------------ rate limiter
\* [t for t in self.request_times if now - t < 10]
Prune(log, t) == SelectSeq(log, LAMBDA x : t - x < WINDOW_SECONDS)

\* variant: the capacity test off by one
AtCapacityOffByOne(log) == Len(log) > RATE_LIMIT_WINDOW
\* len(self.request_times) >= self.RATE_LIMIT_WINDOW
AtCapacity(log) == Len(log) >= RATE_LIMIT_WINDOW

\* sleep_time = 10 - (now - self.request_times[0])
SleepTime(log, t) == WINDOW_SECONDS - (t - log[1])

\* whether _check_rate_limit suspends, deciding on the pruned log
MustSleep(log, t) == AtCapacity(Prune(log, t)) /\ SleepTime(Prune(log, t), t) > 0

\* the history keeps the newest RATE_LIMIT_WINDOW + 1 admissions
Remember(hist, t) ==
    LET h == Append(hist, t)
    IN  IF Len(h) > RATE_LIMIT_WINDOW + 1 THEN Tail(h) ELSE h

SleepPcs == {"admit_sleep", "rl_sleep", "sleep_429", "sleep_backoff"}

\* asyncio runs the timer that is due first
TimerDue(t) ==
    /\ pc[t] \in SleepPcs
    /\ \A u \in callers : pc[u] \in SleepPcs => wakeAt[t] <= wakeAt[u]

\* _check_rate_limit called directly, up to the append or to the sleep
CheckRateLimit(t) ==
    /\ t \in callers
    /\ pc[t] = "idle"
    /\ now <= MaxTime
    /\ IF MustSleep(request_times, now)
       THEN /\ request_times' = Prune(request_times, now)
            /\ pc' = [pc EXCEPT ![t] = "admit_sleep"]
            /\ wakeAt' = [wakeAt EXCEPT ![t] = now + SleepTime(Prune(request_times, now), now)]
            /\ UNCHANGED admitted
       ELSE /\ request_times' = Append(Prune(request_times, now), now)
            /\ admitted' = Remember(admitted, now)
            /\ UNCHANGED <<pc, wakeAt>>
    /\ UNCHANGED <<now, callers, layerVars, cache, taskVars>>

\* _check_rate_limit after its sleep: re-prune and append
CheckRateLimitWake(t) ==
    /\ t \in callers
    /\ TimerDue(t)
    /\ now' = Max(now, wakeAt[t])
    /\ request_times' = Append(Prune(request_times, now'), now')
    /\ admitted' = Remember(admitted, now')
    /\ pc' = [pc EXCEPT ![t] = "idle"]
    /\ wakeAt' = [wakeAt EXCEPT ![t] = 0]
    /\ UNCHANGED <<callers, layerVars, cache, taskVars>>

\* time passes
Tick ==
    /\ now + TickStep <= MaxTime
    /\ now' = now + TickStep
    /\ UNCHANGED <<request_times, admitted, callers, layerVars, pc, wakeAt, cache, taskVars>>

\* ------------------------------------------------------------ cache key
\* the parameter names, in the order Python compares the strings
ParamOrder ==
    <<"api_key", "first_air_date_year", "language", "primary_release_year", "query",
      "sort_by", "with_genres", "with_original_language", "year">>
Rank(name) == CHOOSE i \in DOMAIN ParamOrder : ParamOrder[i] = name

\* params[name] = value on a dict: in place when the name is there, else at the end
SetItem(items, name, value) ==
    IF \E i \in DOMAIN items : items[i][1] = name
    THEN [i \in DOMAIN items |-> IF items[i][1] = name THEN <<name, value>> ELSE items[i]]
    ELSE Append(items, <<name, value>>)

\* params["api_key"] = self.api_key
WithApiKey(items) == SetItem(items, "api_key", API_KEY)

InsertItem(item, sorted) ==
    LET k == Cardinality({i \in DOMAIN sorted : Rank(sorted[i][1]) < Rank(item[1])})
    IN  SubSeq(sorted, 1, k) \o <<item>> \o SubSeq(sorted, k + 1, Len(sorted))

RECURSIVE SortItems(_)
\* sorted(params.items())
SortItems(items) ==
    IF items = <<>> THEN <<>> ELSE InsertItem(Head(items), SortItems(Tail(items)))

\* variant: the items taken in insertion order
CacheKeyUnsorted(endpoint, items) == <<endpoint, items>>
\* _get_cache_key: f"{endpoint}:{sorted_params}"
CacheKey(endpoint, items) == <<endpoint, SortItems(items)>>

KeyOf(r) == CacheKey(r.endpoint, r.params)

\* variant: an entry still served at the moment its TTL has run out
FreshInclusive(entry, t) == t - entry.timestamp <= CACHE_TTL
\* variant: the TTL comparison inverted
FreshInverted(entry, t) == t - entry.timestamp > CACHE_TTL
\* time.time() - timestamp < self._cache_ttl
Fresh(entry, t) == t - entry.timestamp < CACHE_TTL

\* cache_key in self._cache and the entry is within its TTL, for the cache c
CacheHitIn(c, key, t) == key \in DOMAIN c /\ Fresh(c[key], t)
CacheHit(key, t) == CacheHitIn(cache, key, t)

\* ------------------------------------------------------------ _request
Return(v) == [kind |-> "return", val |-> v]
Raise(e) == [kind |-> "raise", val |-> e]

\* await self._check_rate_limit() and, once admitted, the call of
\* self.client.request: up to the first suspension
TryAdmitOn(t, clock, n, log) ==
    IF MustSleep(log, clock)
    THEN /\ request_times' = Prune(log, clock)
         /\ admitted' = admitted
         /\ pc' = [pc EXCEPT ![t] = "rl_sleep"]
         /\ wakeAt' = [wakeAt EXCEPT ![t] = clock + SleepTime(Prune(log, clock), clock)]
         /\ sent' = [sent EXCEPT ![t] = n]
    ELSE /\ request_times' = Append(Prune(log, clock), clock)
         /\ admitted' = Remember(admitted, clock)
         /\ pc' = [pc EXCEPT ![t] = "transport"]
         /\ wakeAt' = [wakeAt EXCEPT ![t] = 0]
         /\ sent' = [sent EXCEPT ![t] = n + 1]

\* _check_rate_limit inside _request, on the log of the installed client
TryAdmit(t, clock, n) == TryAdmitOn(t, clock, n, request_times)

\* the end of a dispatch
Finish(t, res, clock) ==
    /\ result' = [result EXCEPT ![t] = res]
    /\ doneAt' = [doneAt EXCEPT ![t] = clock]
    /\ pc' = [pc EXCEPT ![t] = "idle"]
    /\ wakeAt' = [wakeAt EXCEPT ![t] = 0]

\* variant: a cache hit refreshes the timestamp of its entry
DispatchOnRefreshing(t, r, uc, c, log) ==
    /\ t \in callers
    /\ pc[t] = "idle"
    /\ dispatched' = [dispatched EXCEPT ![t] = @ + 1]
    /\ LET q == [endpoint |-> r.endpoint, params |-> WithApiKey(r.params), use_cache |-> uc]
       IN  /\ req' = [req EXCEPT ![t] = q]
           /\ outcomes' = [outcomes EXCEPT ![t] = <<>>]
           /\ delays' = [delays EXCEPT ![t] = <<>>]
           /\ attempt' = [attempt EXCEPT ![t] = 0]
           /\ backoff' = [backoff EXCEPT ![t] = INITIAL_BACKOFF]
           /\ body' = [body EXCEPT ![t] = None]
           /\ IF uc /\ CacheHitIn(c, KeyOf(q), now)
              THEN /\ Finish(t, Return(c[KeyOf(q)].data), now)
                   /\ sent' = [sent EXCEPT ![t] = 0]
                   /\ request_times' = log
                   /\ UNCHANGED admitted
              ELSE /\ TryAdmitOn(t, now, 0, log)
                   /\ result' = [result EXCEPT ![t] = Pending]
                   /\ UNCHANGED doneAt
    /\ cache' = IF uc /\ CacheHitIn(c, KeyOf([endpoint |-> r.endpoint,
                                                params |-> WithApiKey(r.params)]), now)
                THEN [c EXCEPT ![KeyOf([endpoint |-> r.endpoint,
                                        params |-> WithApiKey(r.params)])].timestamp = now]
                ELSE c
    /\ UNCHANGED <<now, callers>>

\* _request from its call to its first suspension or, on a cache hit, its return
DispatchOn(t, r, uc, c, log) ==
    /\ t \in callers
    /\ pc[t] = "idle"
    /\ dispatched' = [dispatched EXCEPT ![t] = @ + 1]
    /\ LET q == [endpoint |-> r.endpoint, params |-> WithApiKey(r.params), use_cache |-> uc]
       IN  /\ req' = [req EXCEPT ![t] = q]
           /\ outcomes' = [outcomes EXCEPT ![t] = <<>>]
           /\ delays' = [delays EXCEPT ![t] = <<>>]
           /\ attempt' = [attempt EXCEPT ![t] = 0]
           /\ backoff' = [backoff EXCEPT ![t] = INITIAL_BACKOFF]
           /\ body' = [body EXCEPT ![t] = None]
           /\ IF uc /\ CacheHitIn(c, KeyOf(q), now)
              THEN /\ Finish(t, Return(c[KeyOf(q)].data), now)
                   /\ sent' = [sent EXCEPT ![t] = 0]
                   /\ request_times' = log
                   /\ UNCHANGED admitted
              ELSE /\ TryAdmitOn(t, now, 0, log)
                   /\ result' = [result EXCEPT ![t] = Pending]
                   /\ UNCHANGED doneAt
    /\ cache' = c
    /\ UNCHANGED <<now, callers>>

\* _request on the cache and the log of the installed client
Dispatch(t, r, uc) == DispatchOn(t, r, uc, cache, request_times)

\* a dispatch by a caller of the client that is no tool call
Request(t, r, uc) ==
    /\ dispatched[t] < MaxDispatches
    /\ Dispatch(t, r, uc)
    /\ UNCHANGED layerVars

\* _check_rate_limit after its sleep, then the call of self.client.request
RateLimitWake(t) ==
    /\ t \in callers
    /\ pc[t] = "rl_sleep"
    /\ TimerDue(t)
    /\ now' = Max(now, wakeAt[t])
    /\ request_times' = Append(Prune(request_times, now'), now')
    /\ admitted' = Remember(admitted, now')
    /\ pc' = [pc EXCEPT ![t] = "transport"]
    /\ wakeAt' = [wakeAt EXCEPT ![t] = 0]
    /\ sent' = [sent EXCEPT ![t] = @ + 1]
    /\ UNCHANGED <<cache, callers, layerVars, req, attempt, backoff, outcomes, delays, result,
                   doneAt, dispatched, body>>

Received(t, what) == outcomes' = [outcomes EXCEPT ![t] = Append(@, what)]

\* variant: the write replaces the cache by the one new entry
StoreOnly(c, q, p, clock) ==
    IF q.use_cache THEN (KeyOf(q) :> [data |-> p, timestamp |-> clock]) ELSE c
\* variant: the write not guarded by use_cache
StoreAlways(c, q, p, clock) == (KeyOf(q) :> [data |-> p, timestamp |-> clock]) @@ c
\* if use_cache: self._cache[cache_key] = (data, time.time())
Store(c, q, p, clock) ==
    IF q.use_cache THEN (KeyOf(q) :> [data |-> p, timestamp |-> clock]) @@ c ELSE c

\* variant: a 2xx response answered with the entry another dispatch has cached
RespondOkCoalesced(t, p) ==
    /\ pc[t] = "transport"
    /\ Received(t, "2xx")
    /\ body' = [body EXCEPT ![t] = p]
    /\ cache' = IF KeyOf(req[t]) \in DOMAIN cache THEN cache ELSE Store(cache, req[t], p, now)
    /\ Finish(t, Return(IF KeyOf(req[t]) \in DOMAIN cache
                         THEN cache[KeyOf(req[t])].data ELSE p), now)
    /\ UNCHANGED <<now, limiterVars, callers, layerVars, req, attempt, backoff, sent, delays,
                   dispatched>>

\* variant: a 2xx response slept on and retried like an error
RespondOkRetried(t, p) ==
    /\ pc[t] = "transport"
    /\ Received(t, "2xx")
    /\ body' = [body EXCEPT ![t] = p]
    /\ delays' = [delays EXCEPT ![t] = Append(@, backoff[t])]
    /\ pc' = [pc EXCEPT ![t] = "sleep_backoff"]
    /\ wakeAt' = [wakeAt EXCEPT ![t] = now + backoff[t]]
    /\ UNCHANGED <<now, limiterVars, cache, callers, layerVars, req, attempt, backoff, sent,
                   result, doneAt, dispatched>>

\* a 2xx response with a JSON body: cache it and return it
RespondOk(t, p) ==
    /\ pc[t] = "transport"
    /\ Received(t, "2xx")
    /\ body' = [body EXCEPT ![t] = p]
    /\ cache' = Store(cache, req[t], p, now)
    /\ Finish(t, Return(p), now)
    /\ UNCHANGED <<now, limiterVars, callers, layerVars, req, attempt, backoff, sent, delays,
                   dispatched>>

\* a 2xx response whose body is no JSON: response.json() raises
RespondBadJson(t) ==
    /\ pc[t] = "transport"
    /\ Received(t, "badjson")
    /\ Finish(t, Raise("JSONDecodeError"), now)
    /\ UNCHANGED <<now, limiterVars, cache, callers, layerVars, req, attempt, backoff, sent,
                   delays, dispatched, body>>

\* variant: a 404 retried with backoff like any other error status
Respond404Retried(t) ==
    /\ pc[t] = "transport"
    /\ Received(t, "404")
    /\ delays' = [delays EXCEPT ![t] = Append(@, backoff[t])]
    /\ pc' = [pc EXCEPT ![t] = "sleep_backoff"]
    /\ wakeAt' = [wakeAt EXCEPT ![t] = now + backoff[t]]
    /\ UNCHANGED <<now, limiterVars, cache, callers, layerVars, req, attempt, backoff, sent,
                   result, doneAt, dispatched, body>>

\* variant: a 404 removes the entry of the fingerprint from the cache
Respond404Evicting(t) ==
    /\ pc[t] = "transport"
    /\ Received(t, "404")
    /\ Finish(t, Raise("TITLE_NOT_FOUND"), now)
    /\ cache' = [key \in DOMAIN cache \ {KeyOf(req[t])} |-> cache[key]]
    /\ UNCHANGED <<now, limiterVars, callers, layerVars, req, attempt, backoff, sent,
                   delays, dispatched, body>>

\* a 404: raise_for_status raises, the handler raises ValueError("TITLE_NOT_FOUND")
Respond404(t) ==
    /\ pc[t] = "transport"
    /\ Received(t, "404")
    /\ Finish(t, Raise("TITLE_NOT_FOUND"), now)
    /\ UNCHANGED <<now, limiterVars, cache, callers, layerVars, req, attempt, backoff, sent,
                   delays, dispatched, body>>

\* variant: the Retry-After header not looked at
RetryAfterIgnored(header, b) == b
\* variant: the backoff taken for milliseconds
RetryAfterMillis(header, b) == IF header = <<>> THEN b * 1000 ELSE header[1]
\* int(response.headers.get("Retry-After", backoff)); backoff is a whole number
RetryAfter(header, b) == IF header = <<>> THEN b ELSE header[1]

\* a 429: sleep retry_after and continue with the next iteration.  The status is
\* tested before raise_for_status, so the 429 branch of the HTTPStatusError
\* handler (the one that doubles backoff and raises RateLimitError) never runs.
Respond429(t, header) ==
    /\ pc[t] = "transport"
    /\ Received(t, IF header = <<>> THEN "429" ELSE "429+Retry-After")
    /\ delays' = [delays EXCEPT ![t] = Append(@, RetryAfter(header, backoff[t]))]
    /\ pc' = [pc EXCEPT ![t] = "sleep_429"]
    /\ wakeAt' = [wakeAt EXCEPT ![t] = now + RetryAfter(header, backoff[t])]
    /\ UNCHANGED <<now, limiterVars, cache, callers, layerVars, req, attempt, backoff, sent,
                   result, doneAt, dispatched, body>>

ErrorKinds == {"HTTPStatusError", "RequestError"}

\* attempt < self.MAX_RETRIES - 1
HasAttemptsLeft(n) == n < MAX_RETRIES - 1

\* another error status (HTTPStatusError) or a transport error (RequestError):
\* sleep backoff and retry, or re-raise on the last attempt
RespondError(t, kind) ==
    /\ pc[t] = "transport"
    /\ Received(t, kind)
    /\ IF HasAttemptsLeft(attempt[t])
       THEN /\ delays' = [delays EXCEPT ![t] = Append(@, backoff[t])]
            /\ pc' = [pc EXCEPT ![t] = "sleep_backoff"]
            /\ wakeAt' = [wakeAt EXCEPT ![t] = now + backoff[t]]
            /\ UNCHANGED <<result, doneAt>>
       ELSE /\ Finish(t, Raise(kind), now)
            /\ UNCHANGED delays
    /\ UNCHANGED <<now, limiterVars, cache, callers, layerVars, req, attempt, backoff, sent,
                   dispatched, body>>

\* backoff = min(backoff * 2, self.MAX_BACKOFF)
NextBackoff(b) == Min(b * 2, MAX_BACKOFF)

\* variant: one iteration too many
LoopContinuesOffByOne(n) == n <= MAX_RETRIES
\* for attempt in range(self.MAX_RETRIES)
LoopContinues(n) == n < MAX_RETRIES

\* after the sleep of the retry loop: the next iteration of the for loop, or its
\* variant: a retry goes to the transport without an admission
RetryWakeUnadmitted(t) ==
    /\ t \in callers
    /\ pc[t] \in {"sleep_429", "sleep_backoff"}
    /\ TimerDue(t)
    /\ now' = Max(now, wakeAt[t])
    /\ attempt' = [attempt EXCEPT ![t] = @ + 1]
    /\ backoff' = [backoff EXCEPT ![t] =
                      IF pc[t] = "sleep_backoff" THEN NextBackoff(@) ELSE @]
    /\ IF LoopContinues(attempt[t] + 1)
       THEN /\ pc' = [pc EXCEPT ![t] = "transport"]
            /\ wakeAt' = [wakeAt EXCEPT ![t] = 0]
            /\ sent' = [sent EXCEPT ![t] = @ + 1]
            /\ UNCHANGED <<limiterVars, result, doneAt>>
       ELSE /\ Finish(t, Return(None), now')
            /\ UNCHANGED <<limiterVars, sent>>
    /\ UNCHANGED <<cache, callers, layerVars, req, outcomes, delays, dispatched, body>>

\* end, where _request returns None
RetryWake(t) ==
    /\ t \in callers
    /\ pc[t] \in {"sleep_429", "sleep_backoff"}
    /\ TimerDue(t)
    /\ now' = Max(now, wakeAt[t])
    /\ attempt' = [attempt EXCEPT ![t] = @ + 1]
    /\ backoff' = [backoff EXCEPT ![t] =
                      IF pc[t] = "sleep_backoff" THEN NextBackoff(@) ELSE @]
    /\ IF LoopContinues(attempt[t] + 1)
       THEN /\ TryAdmit(t, now', sent[t])
            /\ UNCHANGED <<result, doneAt>>
       ELSE /\ Finish(t, Return(None), now')
            /\ UNCHANGED <<limiterVars, sent>>
    /\ UNCHANGED <<cache, callers, layerVars, req, outcomes, delays, dispatched, body>>

\* the client sits idle until an entry stored now is about to expire, or has expired
Idle(d) ==
    /\ \A t \in callers : pc[t] = "idle"
    /\ now + d <= MaxIdle
    /\ now' = now + d
    /\ UNCHANGED <<request_times, admitted, callers, layerVars, pc, wakeAt, cache, taskVars>>

InitRun ==
    /\ now = 0
    /\ cache = <<>>
    /\ pc = [t \in Tasks |-> "idle"]
    /\ wakeAt = [t \in Tasks |-> 0]
    /\ req = [t \in Tasks |-> NoRequest]
    /\ attempt = [t \in Tasks |-> 0]
    /\ backoff = [t \in Tasks |-> INITIAL_BACKOFF]
    /\ sent = [t \in Tasks |-> 0]
    /\ outcomes = [t \in Tasks |-> <<>>]
    /\ delays = [t \in Tasks |-> <<>>]
    /\ result = [t \in Tasks |-> Pending]
    /\ doneAt = [t \in Tasks |-> 0]
    /\ dispatched = [t \in Tasks |-> 0]
    /\ body = [t \in Tasks |-> None]
    /\ cache_key = [t \in Tasks |-> NoKey]
    /\ tool = [t \in Tasks |-> NoCall]
    /\ responses = <<>>
    /\ client = None
    /\ constructed = 0
    /\ tool_calls = << >>
    /\ errors = << >>
    /\ recorded = << >>

\* TMDB_API_KEY is set in the environment of the server
InitState == InitRun /\ api_key = "key"

InitClient == InitState /\ provided = NoInput /\ formatted = NoOutput

InitRate == InitClient /\ callers = Tasks /\ request_times = <<>> /\ admitted = <<>>
InitRateSingle ==
    InitClient /\ callers = {"t1"} /\ request_times = <<>> /\ admitted = <<>>

NextRate ==
    \/ \E t \in Tasks : CheckRateLimit(t)
    \/ \E t \in Tasks : CheckRateLimitWake(t)
    \/ Tick

SpecRate == InitRate /\ [][NextRate]_vars
SpecRateSingle == InitRateSingle /\ [][NextRate]_vars

\* a client that has just admitted RATE_LIMIT_WINDOW requests
FullLog == [i \in 1 .. RATE_LIMIT_WINDOW |-> 0]

\* one caller, dispatching the details request again and again, to a client
\* that is fresh or has just admitted RATE_LIMIT_WINDOW requests
Init ==
    /\ InitClient
    /\ callers = {"t1"}
    /\ request_times \in {<<>>, FullLog}
    /\ admitted = request_times

Next ==
    \/ \E t \in Tasks, uc \in BOOLEAN : Request(t, DetailsRequest, uc)
    \/ \E t \in Tasks : RateLimitWake(t)
    \/ \E t \in Tasks, p \in Payloads : RespondOk(t, p)
    \/ \E t \in Tasks : RespondBadJson(t)
    \/ \E t \in Tasks : Respond404(t)
    \/ \E t \in Tasks, h \in RetryAfterHeaders : Respond429(t, h)
    \/ \E t \in Tasks, kind \in ErrorKinds : RespondError(t, kind)
    \/ \E t \in Tasks : RetryWake(t)
    \/ \E d \in {CACHE_TTL - 1, CACHE_TTL} : Idle(d)

Spec == Init /\ [][Next]_vars

\* the transport call of t completes, with a response or with an error
Responds(t) ==
    \/ \E p \in Payloads : RespondOk(t, p)
    \/ RespondBadJson(t)
    \/ Respond404(t)
    \/ \E h \in RetryAfterHeaders : Respond429(t, h)
    \/ \E kind \in ErrorKinds : RespondError(t, kind)

\* time advances, so every timer fires, and every transport call completes
\* (httpx.AsyncClient is constructed with timeout=10.0)
Fairness ==
    \A t \in Tasks :
        /\ WF_vars(RateLimitWake(t))
        /\ WF_vars(RetryWake(t))
        /\ WF_vars(Responds(t))

SpecLive == Init /\ [][Next]_vars /\ Fairness

\* two callers whose dispatches overlap, against an upstream that answers every
\* request with a 2xx or a 404
InitConcurrent ==
    InitClient /\ callers = Tasks /\ request_times = <<>> /\ admitted = <<>>

NextConcurrent ==
    \/ \E t \in Tasks, r \in Requests, uc \in BOOLEAN : Request(t, r, uc)
    \/ \E t \in Tasks, p \in Payloads : RespondOk(t, p)
    \/ \E t \in Tasks : Respond404(t)
    \/ \E d \in {CACHE_TTL - 1, CACHE_TTL} : Idle(d)

SpecConcurrent == InitConcurrent /\ [][NextConcurrent]_vars

\* ------------------------------------------------------------ _get_cache_key
\* the endpoints, parameter names and values the fingerprint is computed of
KeyEndpoints == {"/search/movie", "/search/tv"}
KeyNames == {"query", "year", "language"}
KeyValues == {"a", "b"}

\* params[name] = value: a client method fills the dict of its request
SetParam(t, name, value) ==
    /\ t \in callers
    /\ cache_key[t] = NoKey
    /\ req' = [req EXCEPT ![t].params = SetItem(@, name, value)]
    /\ UNCHANGED <<now, limiterVars, cache, callers, pc, wakeAt, attempt, backoff, sent,
                   outcomes, delays, result, doneAt, dispatched, body, layerVars>>

\* cache_key = self._get_cache_key(endpoint, params), after _request has put
\* the api_key into the dict
GetCacheKey(t, endpoint) ==
    /\ t \in callers
    /\ cache_key[t] = NoKey
    /\ req' = [req EXCEPT ![t] = [endpoint |-> endpoint, params |-> WithApiKey(@.params),
                                  use_cache |-> TRUE]]
    /\ cache_key' = [cache_key EXCEPT ![t] = CacheKey(endpoint, req'[t].params)]
    /\ UNCHANGED <<now, limiterVars, cache, callers, pc, wakeAt, attempt, backoff, sent,
                   outcomes, delays, result, doneAt, dispatched, body, tool, responses,
                   client, constructed, formatVars, metricVars, api_key>>

\* two callers that fill the params of a request in any order and have its
\* fingerprint computed
InitKey == InitClient /\ callers = Tasks /\ request_times = <<>> /\ admitted = <<>>

NextKey ==
    \/ \E t \in Tasks, name \in KeyNames, value \in KeyValues : SetParam(t, name, value)
    \/ \E t \in Tasks, endpoint \in KeyEndpoints : GetCacheKey(t, endpoint)

SpecKey == InitKey /\ [][NextKey]_vars

\* ------------------------------------------------------------ client methods
MediaTypes == {"movie", "tv"}
SortKeys == {"popularity", "vote_average"}

\* the truth value Python gives an optional string
Truthy(v) == v # None /\ v # ""

\* str.lower() of the genre names that occur
Lower(name) ==
    CASE name \in {"Action", "action", "ACTION"} -> "action"
      [] name \in {"Drama", "DRAMA"} -> "drama"
      [] name = "western" -> "western"

\* data.get("genres", []) of a payload: p1 is a genre list, p2 has no genres
GenresOf(data) ==
    IF data = "p1"
    THEN << [name |-> "Action", id |-> 28], [name |-> "Drama", id |-> 18] >>
    ELSE << >>

RECURSIVE GenreDict(_)
\* {g["name"].lower(): g["id"] for g in data.get("genres", [])}: a later entry
\* of the same lowered name replaces an earlier one
GenreDict(list) ==
    IF list = << >>
    THEN << >>
    ELSE (Lower(list[Len(list)].name) :> list[Len(list)].id)
            @@ GenreDict(SubSeq(list, 1, Len(list) - 1))

\* variant: the names looked up as they were given
RECURSIVE GenreIdsCaseSensitive(_, _)
GenreIdsCaseSensitive(genres, genre_names) ==
    IF genre_names = << >>
    THEN << >>
    ELSE (IF Head(genre_names) \in DOMAIN genres
          THEN << genres[Head(genre_names)] >>
          ELSE << >>) \o GenreIdsCaseSensitive(genres, Tail(genre_names))

RECURSIVE GenreIds(_, _)
\* the loop of _get_genre_ids: the id of every name whose lowered form is a key
GenreIds(genres, genre_names) ==
    IF genre_names = << >>
    THEN << >>
    ELSE (IF Lower(Head(genre_names)) \in DOMAIN genres
          THEN << genres[Lower(Head(genre_names))] >>
          ELSE << >>) \o GenreIds(genres, Tail(genre_names))

RECURSIVE JoinIds(_)
\* ",".join(map(str, genre_ids)) of a list that is not empty
JoinIds(ids) ==
    IF Len(ids) = 1
    THEN ToString(ids[1])
    ELSE ToString(ids[1]) \o "," \o JoinIds(Tail(ids))

\* the params dict discover builds
DiscoverParams(type, genre_ids, year, language, sort_by) ==
    LET g == IF genre_ids # << >>
             THEN SetItem(<< >>, "with_genres", JoinIds(genre_ids))
             ELSE << >>
        y == IF Truthy(year)
             THEN SetItem(g, IF type = "movie" THEN "primary_release_year"
                             ELSE "first_air_date_year", year)
             ELSE g
        l == IF Truthy(language) THEN SetItem(y, "with_original_language", language) ELSE y
    IN  IF Truthy(sort_by) THEN SetItem(l, "sort_by", sort_by \o ".desc") ELSE l

\* the requests of the client methods, for the title 1 and the query "q"
SearchRequestOf(type) ==
    [endpoint |-> "/search/" \o (IF Truthy(type) THEN type ELSE "movie"),
     params |-> << <<"query", "q">> >>]
DetailsRequestOf(type) == [endpoint |-> "/" \o type \o "/1", params |-> << >>]
RecommendationsRequestOf(type) ==
    [endpoint |-> "/" \o type \o "/1/recommendations", params |-> << >>]
GenreListRequestOf(type) == [endpoint |-> "/genre/" \o type \o "/list", params |-> << >>]
DiscoverRequestOf(a, genre_ids) ==
    [endpoint |-> "/discover/" \o a.type,
     params |-> DiscoverParams(a.type, genre_ids, None, None, a.sort_by)]

\* variant: get_recommendations asks for the recommendations first
FirstRequestRecommendations(a) ==
    CASE a.tool = "search_title" -> SearchRequestOf(a.type)
      [] a.tool = "get_details" -> DetailsRequestOf(a.type)
      [] a.tool = "get_recommendations" -> RecommendationsRequestOf(a.type)
      [] a.tool = "discover" ->
            IF a.genre # << >> THEN GenreListRequestOf(a.type)
            ELSE DiscoverRequestOf(a, << >>)

\* the first dispatch of a tool call
FirstRequest(a) ==
    CASE a.tool = "search_title" -> SearchRequestOf(a.type)
      [] a.tool = "get_details" -> DetailsRequestOf(a.type)
      [] a.tool = "get_recommendations" -> DetailsRequestOf(a.type)
      [] a.tool = "discover" ->
            IF a.genre # << >> THEN GenreListRequestOf(a.type)
            ELSE DiscoverRequestOf(a, << >>)

\* get_recommendations and discover with genres dispatch twice
HasSecond(a) ==
    a.tool = "get_recommendations" \/ (a.tool = "discover" /\ a.genre # << >>)

\* the second dispatch, data being what the first one returned
SecondRequest(a, data) ==
    IF a.tool = "get_recommendations"
    THEN RecommendationsRequestOf(a.type)
    ELSE DiscoverRequestOf(a, GenreIds(GenreDict(GenresOf(data)), a.genre))

\* variant: the genre list fetched past the cache
UseCacheButForGenres(r) == r.endpoint \notin {GenreListRequestOf(type).endpoint : type \in MediaTypes}
\* the use_cache argument of the client methods' calls of _request: the
\* default True, and use_cache=True in _get_genre_ids
UseCache(r) == TRUE

\* ------------------------------------------------------------ tool layer
\* the request body of a tool call: the tool, type, sort_by and genre; None is
\* a field the body leaves out
ToolArgs(name, type, sort_by, genre) ==
    [tool |-> name, type |-> type, sort_by |-> sort_by, genre |-> genre]

\* SearchTitleArgs.validate_type: if v and v not in ["movie", "tv"]
ValidOptionalType(v) == ~(Truthy(v) /\ v \notin MediaTypes)
\* the validate_type of the other three models: if v not in ["movie", "tv"]
ValidType(v) == v \in MediaTypes
\* DiscoverArgs.validate_sort_by: if v and v not in ["popularity", "vote_average"]
ValidSortBy(v) == ~(Truthy(v) /\ v \notin SortKeys)

\* the pydantic model of the tool accepts the arguments
ValidArgs(a) ==
    CASE a.tool = "search_title" -> ValidOptionalType(a.type)
      [] a.tool = "discover" -> ValidType(a.type) /\ ValidSortBy(a.sort_by)
      [] OTHER -> ValidType(a.type)

\* an exception: its class as the except clauses see it, and str(e) in parts
Exception(class, msg) == [class |-> class, msg |-> msg]

\* what the client method raises for the outcome of _request: its exception,
\* or AttributeError when _request returned None and .get is called on it
ClientRaises(res) ==
    IF res.kind = "return" THEN "AttributeError" ELSE res.val

\* ValueError("TITLE_NOT_FOUND") and json.JSONDecodeError are ValueErrors
IsValueError(e) == e \in {"TITLE_NOT_FOUND", "JSONDecodeError"}

\* the except clauses of the functions of tools.py; discover has no
\* TITLE_NOT_FOUND test
ToolRaises(name, e) ==
    IF IsValueError(e)
    THEN IF e = "TITLE_NOT_FOUND" /\ name # "discover"
         THEN Exception("ValueError", << "TITLE_NOT_FOUND" >>)
         ELSE Exception("ValueError", << "Invalid arguments: ", e >>)
    ELSE IF e = "RATE_LIMIT"
         THEN Exception("RateLimitError", << "RATE_LIMIT" >>)
         ELSE Exception("ValueError", << "API error: ", e >>)

HttpResponse(status, detail) == [status |-> status, detail |-> detail]

\* the except clauses of the endpoints of http_server.py; tool_discover has no
\* TITLE_NOT_FOUND test
HttpRaises(name, exc) ==
    IF exc.class = "ValueError"
    THEN IF exc.msg = << "TITLE_NOT_FOUND" >> /\ name # "discover"
         THEN HttpResponse(404, << "TITLE_NOT_FOUND" >>)
         ELSE HttpResponse(400, exc.msg)
    ELSE IF exc.class = "RateLimitError"
         THEN HttpResponse(429, << "RATE_LIMIT" >>)
         ELSE HttpResponse(500, exc.msg)

\* the response of the endpoint to the outcome of the tool's last dispatch
ToolResponse(name, res) ==
    IF res.kind = "return" /\ res.val # None
    THEN HttpResponse(200, << res.val >>)
    ELSE HttpRaises(name, ToolRaises(name, ClientRaises(res)))

\* why the tool call ended as it did: "ok", or the exception below it
CauseOf(res) ==
    IF res.kind = "return" /\ res.val # None THEN "ok" ELSE ClientRaises(res)

Ends(name, cause, response) ==
    responses' = Append(responses,
                        [tool |-> name, cause |-> cause, status |-> response.status,
                         detail |-> response.detail])

\* ------------------------------------------------------------ health.py
\* if len(_metrics["errors"]) > 100
MAX_ERRORS == 100

\* the counters of a tool that record_tool_call has not seen before (the
\* float total_latency is left out)
NewCounters == [count |-> 0, success_count |-> 0, error_count |-> 0]

\* variant: only a successful call is counted
RecordToolCallSuccessOnly(calls, tool_name, success) ==
    LET known == IF tool_name \in DOMAIN calls THEN calls
                 ELSE calls @@ (tool_name :> NewCounters)
    IN  [known EXCEPT ![tool_name] =
            [count |-> IF success THEN @.count + 1 ELSE @.count,
             success_count |-> IF success THEN @.success_count + 1 ELSE @.success_count,
             error_count |-> IF success THEN @.error_count ELSE @.error_count + 1]]
\* record_tool_call, on the dict of the tools' counters
RecordToolCall(calls, tool_name, success) ==
    LET known == IF tool_name \in DOMAIN calls THEN calls
                 ELSE calls @@ (tool_name :> NewCounters)
    IN  [known EXCEPT ![tool_name] =
            [count |-> @.count + 1,
             success_count |-> IF success THEN @.success_count + 1 ELSE @.success_count,
             error_count |-> IF success THEN @.error_count ELSE @.error_count + 1]]

\* the dict record_error appends
ErrorEntry(error_type, error_message, time) ==
    [type |-> error_type, message |-> error_message, timestamp |-> time]

\* s[-n:]
Newest(s, n) == IF Len(s) <= n THEN s ELSE SubSeq(s, Len(s) - n + 1, Len(s))

\* variant: the list trimmed to its oldest entries
RecordErrorKeepingOldest(errs, error_type, error_message, time) ==
    LET all == Append(errs, ErrorEntry(error_type, error_message, time))
    IN  IF Len(all) > MAX_ERRORS THEN SubSeq(all, 1, MAX_ERRORS) ELSE all
\* record_error, on the list of errors
RecordError(errs, error_type, error_message, time) ==
    LET all == Append(errs, ErrorEntry(error_type, error_message, time))
    IN  IF Len(all) > MAX_ERRORS THEN Newest(all, MAX_ERRORS) ELSE all

\* the error_type an except clause of an endpoint passes to record_error
ErrorType(exc) ==
    IF exc.class \in {"ValueError", "RateLimitError"} THEN exc.class ELSE "Exception"

\* the endpoint after the tool returned: record_tool_call(name, latency, True)
Succeeds(name) ==
    /\ tool_calls' = RecordToolCall(tool_calls, name, TRUE)
    /\ UNCHANGED <<errors, recorded>>

\* an except clause of the endpoint: record_tool_call(name, latency, False)
\* and record_error
Fails(name, exc) ==
    /\ tool_calls' = RecordToolCall(tool_calls, name, FALSE)
    /\ errors' = RecordError(errors, ErrorType(exc), exc.msg, now)
    /\ recorded' = Append(recorded, ErrorEntry(ErrorType(exc), exc.msg, now))

\* ------------------------------------------------------------ http_server.py
Serving(a, stage) ==
    [tool |-> a.tool, type |-> a.type, sort_by |-> a.sort_by, genre |-> a.genre,
     stage |-> stage]

\* variant: get_client constructs a client for every call
MustConstructAlways == TRUE
\* get_client: if _client is None
MustConstruct == client = None

\* variant: the client constructed without a key
HasKeyOrNot == TRUE
\* TMDBClient.__init__: self.api_key = api_key or os.getenv("TMDB_API_KEY"),
\* called without argument; if not self.api_key: raise ValueError
HasKey == Truthy(api_key)

ConfigurationError == Exception("ValueError", << "TMDB_API_KEY environment variable is required" >>)
ValidationError == Exception("ValueError", << "validation error" >>)

\* a TMDBClient just constructed: self._cache = {} and self.request_times = []
NewCache == << >>
NewLog == << >>

\* an endpoint of http_server.py from the request to the first suspension of
\* the tool's first dispatch, or to the 400 of arguments the model rejects
\* (pydantic's ValidationError is a ValueError); get_client() comes first and
\* installs a client when there is none
ToolCall(t, a) ==
    /\ t \in callers
    /\ pc[t] = "idle"
    /\ tool[t].stage \in {"none", "done"}
    /\ IF MustConstruct /\ ~HasKey
       THEN \* TMDBClient() raises within the try of the endpoint; _client is
            \* not assigned
            /\ tool' = [tool EXCEPT ![t] = Serving(a, "done")]
            /\ Ends(a.tool, "ConfigurationError", HttpRaises(a.tool, ConfigurationError))
            /\ Fails(a.tool, ConfigurationError)
            /\ UNCHANGED <<client, constructed, cache, request_times, now, admitted,
                           callers, pc, wakeAt, taskVars, cache_key>>
       ELSE /\ client' = IF MustConstruct THEN "TMDBClient" ELSE client
            /\ constructed' = IF MustConstruct THEN constructed + 1 ELSE constructed
            /\ LET c == IF MustConstruct THEN NewCache ELSE cache
                   log == IF MustConstruct THEN NewLog ELSE request_times
               IN  IF ValidArgs(a)
                   THEN /\ DispatchOn(t, FirstRequest(a), UseCache(FirstRequest(a)), c, log)
                        /\ tool' = [tool EXCEPT ![t] = Serving(a, "first")]
                        /\ UNCHANGED <<responses, cache_key, metricVars>>
                   ELSE /\ tool' = [tool EXCEPT ![t] = Serving(a, "done")]
                        /\ Ends(a.tool, "ValidationError",
                                HttpRaises(a.tool, ValidationError))
                        /\ Fails(a.tool, ValidationError)
                        /\ cache' = c
                        /\ request_times' = log
                        /\ UNCHANGED <<now, admitted, callers, pc, wakeAt, taskVars,
                                       cache_key>>
    /\ UNCHANGED <<formatVars, api_key>>

\* the tool after a dispatch has ended: its second dispatch, or its response
\* with the endpoint's bookkeeping
ToolContinue(t) ==
    /\ t \in callers
    /\ pc[t] = "idle"
    /\ tool[t].stage \in {"first", "second"}
    /\ IF /\ tool[t].stage = "first"
          /\ HasSecond(tool[t])
          /\ result[t].kind = "return"
          /\ result[t].val # None
       THEN /\ Dispatch(t, SecondRequest(tool[t], result[t].val),
                        UseCache(SecondRequest(tool[t], result[t].val)))
            /\ tool' = [tool EXCEPT ![t].stage = "second"]
            /\ UNCHANGED <<responses, cache_key, metricVars>>
       ELSE /\ tool' = [tool EXCEPT ![t].stage = "done"]
            /\ Ends(tool[t].tool, CauseOf(result[t]), ToolResponse(tool[t].tool, result[t]))
            /\ IF CauseOf(result[t]) = "ok"
               THEN Succeeds(tool[t].tool)
               ELSE Fails(tool[t].tool, ToolRaises(tool[t].tool, ClientRaises(result[t])))
            /\ UNCHANGED <<now, limiterVars, cache, callers, pc, wakeAt, taskVars,
                           cache_key>>
    /\ UNCHANGED <<client, constructed, formatVars, api_key>>

\* the number of tool calls one run serves
MaxToolCalls == 2
\* the number of discover calls one run of SpecGenres serves
MaxDiscoverCalls == 1
\* the longest list of genre names passed to discover
MaxGenres == 3

\* the request bodies of the tool calls: valid and invalid types and sort keys
ToolCalls ==
    {ToolArgs("search_title", type, None, << >>) : type \in {None, "movie", "film", ""}}
    \cup {ToolArgs(name, type, None, << >>) :
              name \in {"get_details", "get_recommendations"}, type \in {"tv", "film"}}
    \cup {ToolArgs("discover", type, sort_by, genre) :
              type \in {"movie", "film"}, sort_by \in {None, "popularity", "rating", ""},
              genre \in {<< >>, << "Action" >>}}

\* one caller of the four endpoints, against an upstream that answers, fails
\* or cannot be reached, and does not rate-limit
InitTools == InitClient /\ callers = {"t1"} /\ request_times = <<>> /\ admitted = <<>>

NextTools ==
    \/ \E t \in Tasks, a \in ToolCalls : Len(responses) < MaxToolCalls /\ ToolCall(t, a)
    \/ \E t \in Tasks : ToolContinue(t)
    \/ \E t \in Tasks, p \in Payloads : RespondOk(t, p)
    \/ \E t \in Tasks : RespondBadJson(t)
    \/ \E t \in Tasks : Respond404(t)
    \/ \E t \in Tasks, kind \in ErrorKinds : RespondError(t, kind)
    \/ \E t \in Tasks : RetryWake(t)

SpecTools == InitTools /\ [][NextTools]_vars

\* the genre names passed to discover: one in the provider's spelling but for
\* the case, one in capitals, one the provider does not know
GenreInputs == {"action", "DRAMA", "western"}
GenreLists == UNION {[1 .. n -> GenreInputs] : n \in 0 .. MaxGenres}

DiscoverCalls == {ToolArgs("discover", "movie", None, genre) : genre \in GenreLists}

\* one caller of discover with every list of up to MaxGenres genre names,
\* against an upstream that answers every request with a payload
InitGenres == InitClient /\ callers = {"t1"} /\ request_times = <<>> /\ admitted = <<>>

NextGenres ==
    \/ \E t \in Tasks, a \in DiscoverCalls :
          Len(responses) < MaxDiscoverCalls /\ ToolCall(t, a)
    \/ \E t \in Tasks : ToolContinue(t)
    \/ \E t \in Tasks, p \in Payloads : RespondOk(t, p)

SpecGenres == InitGenres /\ [][NextGenres]_vars

\* the number of get_recommendations calls one run of SpecRecs serves
MaxRecommendationCalls == 1

RecommendationCalls ==
    {ToolArgs("get_recommendations", type, None, << >>) : type \in {"movie", "tv", "film"}}

\* one caller of get_recommendations, against an upstream that answers, sends
\* a malformed body, does not know the title, rate-limits with a Retry-After
\* of 3 s or cannot be reached
InitRecs == InitClient /\ callers = {"t1"} /\ request_times = <<>> /\ admitted = <<>>

NextRecs ==
    \/ \E t \in Tasks, a \in RecommendationCalls :
          Len(responses) < MaxRecommendationCalls /\ ToolCall(t, a)
    \/ \E t \in Tasks : ToolContinue(t)
    \/ \E t \in Tasks, p \in Payloads : RespondOk(t, p)
    \/ \E t \in Tasks : RespondBadJson(t)
    \/ \E t \in Tasks : Respond404(t)
    \/ \E t \in Tasks : Respond429(t, << 3 >>)
    \/ \E t \in Tasks : RespondError(t, "RequestError")
    \/ \E t \in Tasks : RetryWake(t)

SpecRecs == InitRecs /\ [][NextRecs]_vars

\* the number of tool calls one run of SpecShared serves
MaxSharedCalls == 2

SharedCalls ==
    {ToolArgs(name, type, None, << >>) :
        name \in {"get_details", "get_recommendations"}, type \in {"movie", "tv", "film"}}

\* one caller of get_details and get_recommendations, with pauses of just
\* under and of exactly the TTL between the calls, against an upstream that
\* answers or does not know the title
InitShared == InitClient /\ callers = {"t1"} /\ request_times = <<>> /\ admitted = <<>>

NextShared ==
    \/ \E t \in Tasks, a \in SharedCalls :
          Len(responses) < MaxSharedCalls /\ ToolCall(t, a)
    \/ \E t \in Tasks : ToolContinue(t)
    \/ \E t \in Tasks, p \in Payloads : RespondOk(t, p)
    \/ \E t \in Tasks : Respond404(t)
    \/ \E d \in {CACHE_TTL - 1, CACHE_TTL} : Idle(d)

SpecShared == InitShared /\ [][NextShared]_vars

\* the number of discover calls one run of SpecCatalog serves
MaxCatalogCalls == 2

CatalogCalls ==
    {ToolArgs("discover", type, None, genre) :
        type \in MediaTypes, genre \in {<< >>, << "Action" >>, << "Drama", "western" >>}}

\* one caller of discover for both media types, with and without genres, with
\* pauses of just under and of exactly the TTL between the calls, against an
\* upstream that answers or does not know the resource
InitCatalog == InitClient /\ callers = {"t1"} /\ request_times = <<>> /\ admitted = <<>>

NextCatalog ==
    \/ \E t \in Tasks, a \in CatalogCalls :
          Len(responses) < MaxCatalogCalls /\ ToolCall(t, a)
    \/ \E t \in Tasks : ToolContinue(t)
    \/ \E t \in Tasks, p \in Payloads : RespondOk(t, p)
    \/ \E t \in Tasks : Respond404(t)
    \/ \E d \in {CACHE_TTL - 1, CACHE_TTL} : Idle(d)

SpecCatalog == InitCatalog /\ [][NextCatalog]_vars

\* the number of tool calls one run of SpecServer serves
MaxServerCalls == 3

\* os.getenv("TMDB_API_KEY"): not set, set to the empty string, set to a key
Credentials == {None, "", "key"}

ServerCalls ==
    {ToolArgs(name, type, None, << >>) :
        name \in {"search_title", "get_details"}, type \in {"movie", "film"}}

\* a server started with or without the credential in its environment, one
\* caller of search_title and get_details with valid and invalid arguments,
\* against an upstream that answers, does not know the title or cannot be
\* reached
InitServer ==
    /\ InitRun
    /\ api_key \in Credentials
    /\ provided = NoInput
    /\ formatted = NoOutput
    /\ callers = {"t1"}
    /\ request_times = <<>>
    /\ admitted = <<>>

NextServer ==
    \/ \E t \in Tasks, a \in ServerCalls :
          Len(responses) < MaxServerCalls /\ ToolCall(t, a)
    \/ \E t \in Tasks : ToolContinue(t)
    \/ \E t \in Tasks, p \in Payloads : RespondOk(t, p)
    \/ \E t \in Tasks : Respond404(t)
    \/ \E t \in Tasks : RespondError(t, "RequestError")
    \/ \E t \in Tasks : RetryWake(t)

SpecServer == InitServer /\ [][NextServer]_vars

\* the number of record_error calls one run of SpecErrors makes
MaxErrorCalls == 4

\* what the except clauses of the endpoints pass to record_error
RecordedKinds ==
    {[type |-> "ValueError", message |-> << "TITLE_NOT_FOUND" >>],
     [type |-> "RateLimitError", message |-> << "RATE_LIMIT" >>],
     [type |-> "Exception", message |-> << "boom" >>]}

\* the errors of n earlier failed requests, of the three kinds in turn
Backlog(n) ==
    [i \in 1 .. n |->
        CASE i % 3 = 0 -> ErrorEntry("ValueError", << "TITLE_NOT_FOUND" >>, 0)
          [] i % 3 = 1 -> ErrorEntry("RateLimitError", << "RATE_LIMIT" >>, 0)
          [] OTHER -> ErrorEntry("Exception", << "boom" >>, 0)]

\* the lengths of the error list the runs of SpecErrors start from: a server
\* just started, and one two errors short of the limit
ErrorBacklogs == {0, MAX_ERRORS - 2}

\* a call of record_error
CallRecordError(e) ==
    /\ \E n \in ErrorBacklogs : n <= Len(recorded) /\ Len(recorded) < n + MaxErrorCalls
    /\ errors' = RecordError(errors, e.type, e.message, now)
    /\ recorded' = Append(recorded, ErrorEntry(e.type, e.message, now))
    /\ UNCHANGED <<now, limiterVars, cache, callers, pc, wakeAt, taskVars, cache_key, tool,
                   responses, client, constructed, formatVars, api_key, tool_calls>>

InitErrors ==
    /\ now = 0
    /\ cache = <<>>
    /\ pc = [t \in Tasks |-> "idle"]
    /\ wakeAt = [t \in Tasks |-> 0]
    /\ req = [t \in Tasks |-> NoRequest]
    /\ attempt = [t \in Tasks |-> 0]
    /\ backoff = [t \in Tasks |-> INITIAL_BACKOFF]
    /\ sent = [t \in Tasks |-> 0]
    /\ outcomes = [t \in Tasks |-> <<>>]
    /\ delays = [t \in Tasks |-> <<>>]
    /\ result = [t \in Tasks |-> Pending]
    /\ doneAt = [t \in Tasks |-> 0]
    /\ dispatched = [t \in Tasks |-> 0]
    /\ body = [t \in Tasks |-> None]
    /\ cache_key = [t \in Tasks |-> NoKey]
    /\ tool = [t \in Tasks |-> NoCall]
    /\ responses = <<>>
    /\ client = None
    /\ constructed = 0
    /\ tool_calls = << >>
    /\ api_key = "key"
    /\ provided = NoInput
    /\ formatted = NoOutput
    /\ callers = {}
    /\ request_times = <<>>
    /\ admitted = <<>>
    /\ \E n \in ErrorBacklogs : errors = Backlog(n) /\ recorded = Backlog(n)

NextErrors ==
    \/ \E e \in RecordedKinds : CallRecordError(e)

SpecErrors == InitErrors /\ [][NextErrors]_vars

\* ------------------------------------------------------------ tools.py: formatting
\* A provider object is a record of its keys; the value of a key is << >> when
\* the object has no such key and << v >> when it has it with the value v. A
\* string the code slices is the sequence of its characters.
Date2010 == << "2", "0", "1", "0", "-", "0", "7", "-", "1", "6" >>
Date1994 == << "1", "9", "9", "4", "-", "0", "9", "-", "2", "2" >>
ShortDate == << "2", "0", "1" >>
EmptyDate == << >>

\* d.get(key, default)
Get(d, key, default) == IF d[key] = << >> THEN default ELSE d[key][1]

\* s[:n]
Slice(s, n) == SubSeq(s, 1, Min(n, Len(s)))

DigitOf(c) ==
    CASE c = "0" -> 0 [] c = "1" -> 1 [] c = "2" -> 2 [] c = "3" -> 3 [] c = "4" -> 4
      [] c = "5" -> 5 [] c = "6" -> 6 [] c = "7" -> 7 [] c = "8" -> 8 [] c = "9" -> 9

\* int(s), s a string of decimal digits
RECURSIVE ParseInt(_)
ParseInt(s) ==
    IF s = << >> THEN 0
    ELSE ParseInt(SubSeq(s, 1, Len(s) - 1)) * 10 + DigitOf(s[Len(s)])

\* variant: the year taken from first_air_date before release_date
ReleaseDateSeriesFirst(r) ==
    IF r.first_air_date # << >> /\ r.first_air_date[1] # EmptyDate
    THEN r.first_air_date[1]
    ELSE Get(r, "release_date", EmptyDate)

\* result.get("release_date") or result.get("first_air_date", "")
ReleaseDate(r) ==
    IF r.release_date # << >> /\ r.release_date[1] # EmptyDate
    THEN r.release_date[1]
    ELSE Get(r, "first_air_date", EmptyDate)

\* int(release_date[:4]) if release_date and len(release_date) >= 4 else None
YearOf(release_date) ==
    IF release_date # EmptyDate /\ Len(release_date) >= 4
    THEN << ParseInt(Slice(release_date, 4)) >>
    ELSE << >>

\* result.get("title") or result.get("name", "Unknown")
TitleOf(r) ==
    IF r.title # << >> /\ r.title[1] # "" THEN r.title[1] ELSE Get(r, "name", "Unknown")

\* variant: the title read as result["title"]
IndexedKeysWithTitle == {"id", "title"}
\* the keys read as result[key], which raises KeyError when the key is missing
IndexedKeys == {"id"}

\* format_title_result; ratings are in tenths
FormatTitle(r, type) ==
    IF \E key \in IndexedKeys : r[key] = << >>
    THEN Raise("KeyError")
    ELSE Return([id |-> r.id[1],
                 title |-> TitleOf(r),
                 type |-> type,
                 year |-> YearOf(ReleaseDate(r)),
                 rating |-> Get(r, "vote_average", 0),
                 overview |-> Get(r, "overview", ""),
                 poster_path |-> r.poster_path])

\* the items of the results lists of /search and /discover
TitleResults ==
    [id : {<< >>, << 1 >>},
     title : {<< >>, << "" >>, << "Inception" >>},
     name : {<< >>, << "Friends" >>},
     release_date : {<< >>, << EmptyDate >>, << ShortDate >>, << Date2010 >>},
     first_air_date : {<< >>, << EmptyDate >>, << Date1994 >>},
     vote_average : {<< >>, << 81 >>},
     overview : {<< >>, << "A thief" >>},
     poster_path : {<< >>, << "/p.jpg" >>}]

TitleInput(r) == [fn |-> "format_title_result", result |-> r]

\* search_title and discover format one item of the results list
FormatTitleResult(type) ==
    /\ provided.fn = "format_title_result"
    /\ formatted = NoOutput
    /\ formatted' = [fn |-> "format_title_result", type |-> type,
                     out |-> FormatTitle(provided.result, type)]
    /\ UNCHANGED <<now, limiterVars, cache, callers, pc, wakeAt, taskVars, cache_key, tool,
                   responses, client, constructed, provided, metricVars, api_key>>

\* the rating from which a recommendation is "highly rated", in tenths
HIGHLY_RATED == 75

\* [f(x) for x in xs]
RECURSIVE NamesOf(_)
NamesOf(xs) == IF xs = << >> THEN << >> ELSE << xs[1].name >> \o NamesOf(Tail(xs))
RECURSIVE IdsOf(_)
IdsOf(xs) == IF xs = << >> THEN << >> ELSE << xs[1].id >> \o IdsOf(Tail(xs))

\* set(xs)
SetOf(xs) == {xs[i] : i \in DOMAIN xs}

\* sep.join(parts), a text being the sequence of its pieces
RECURSIVE Join(_, _)
Join(parts, sep) ==
    IF parts = << >> THEN << >>
    ELSE IF Len(parts) = 1 THEN parts[1]
    ELSE parts[1] \o << sep >> \o Join(Tail(parts), sep)

\* set(original_genre_ids) & set(r_genre_ids)
CommonGenreIds(details, r) ==
    SetOf(IdsOf(Get(details, "genres", << >>))) \cap SetOf(Get(r, "genre_ids", << >>))

\* [g["name"] for g in details.get("genres", []) if g["id"] in common_genre_ids]
CommonGenreNames(details, r) ==
    NamesOf(SelectSeq(Get(details, "genres", << >>),
                      LAMBDA g : g.id \in CommonGenreIds(details, r)))

\* variant: the rating has to exceed the threshold
HighlyRatedAbove(r) == Get(r, "vote_average", 0) > HIGHLY_RATED
\* r.get("vote_average", 0) >= 7.5
HighlyRated(r) == Get(r, "vote_average", 0) >= HIGHLY_RATED

\* reason_parts
ReasonParts(details, r) ==
    (IF CommonGenreIds(details, r) # {} /\ CommonGenreNames(details, r) # << >>
     THEN << << "shared " >>
             \o Join([i \in 1 .. Min(2, Len(CommonGenreNames(details, r))) |->
                         << CommonGenreNames(details, r)[i] >>], ", ")
             \o << " genres" >> >>
     ELSE << >>)
    \o (IF HighlyRated(r) THEN << << "highly rated" >> >> ELSE << >>)

\* f"Similar to {original_title}" + (f" ({', '.join(reason_parts)})" if reason_parts else "")
Reason(details, r) ==
    << "Similar to ", TitleOf(details) >>
    \o (IF ReasonParts(details, r) # << >>
        THEN << " (" >> \o Join(ReasonParts(details, r), ", ") \o << ")" >>
        ELSE << >>)

\* the body of the loop of get_recommendations for the candidate r
FormatCandidate(details, r) ==
    IF \E key \in IndexedKeys : r[key] = << >>
    THEN Raise("KeyError")
    ELSE Return([id |-> r.id[1],
                 title |-> TitleOf(r),
                 year |-> YearOf(ReleaseDate(r)),
                 reason |-> Reason(details, r)])

Action == [id |-> 28, name |-> "Action"]
Drama == [id |-> 18, name |-> "Drama"]
Adventure == [id |-> 12, name |-> "Adventure"]

\* the source title's details, as far as get_recommendations reads them
SourceDetails ==
    [title : {<< >>, << "Inception" >>},
     name : {<< >>, << "Friends" >>},
     genres : {<< >>, << << >> >>, << << Action >> >>, << << Action, Drama, Adventure >> >>}]

\* the items of the results list of /recommendations
Candidates ==
    [id : {<< >>, << 2 >>},
     title : {<< >>, << "Tenet" >>},
     name : {<< >>},
     release_date : {<< >>, << Date2010 >>},
     first_air_date : {<< >>},
     vote_average : {<< >>, << 74 >>, << 75 >>, << 81 >>},
     genre_ids : {<< >>, << << >> >>, << << 28 >> >>, << << 35 >> >>, << << 28, 18, 12 >> >>,
                  << << 12, 35 >> >>}]

RecommendationInput(d, r) == [fn |-> "get_recommendations", details |-> d, result |-> r]

\* get_recommendations formats one candidate
FormatRecommendation ==
    /\ provided.fn = "get_recommendations"
    /\ formatted = NoOutput
    /\ formatted' = [fn |-> "get_recommendations",
                     out |-> FormatCandidate(provided.details, provided.result)]
    /\ UNCHANGED <<now, limiterVars, cache, callers, pc, wakeAt, taskVars, cache_key, tool,
                   responses, client, constructed, provided, metricVars, api_key>>

\* the dict get_details returns
FormatDetails(d, type) ==
    LET common == [id |-> d.id,
                   title |-> TitleOf(d),
                   overview |-> Get(d, "overview", "No overview available"),
                   genres |-> NamesOf(Get(d, "genres", << >>)),
                   rating |-> Get(d, "vote_average", 0),
                   vote_count |-> Get(d, "vote_count", 0),
                   tagline |-> d.tagline,
                   status |-> d.status]
    IN  IF type = "movie"
        THEN Return(common @@ [release_date |-> d.release_date,
                               runtime |-> d.runtime,
                               budget |-> d.budget,
                               revenue |-> d.revenue])
        ELSE Return(common @@ [first_air_date |-> d.first_air_date,
                               last_air_date |-> d.last_air_date,
                               number_of_seasons |-> d.number_of_seasons,
                               number_of_episodes |-> d.number_of_episodes,
                               created_by |-> NamesOf(Get(d, "created_by", << >>)),
                               networks |-> NamesOf(Get(d, "networks", << >>))])

\* the payloads of /movie/{id} and /tv/{id}, every key there or not
MovieDetails ==
    [id : {<< >>, << 1 >>},
     title : {<< >>, << "Inception" >>},
     name : {<< >>, << "Friends" >>},
     overview : {<< >>, << "A thief" >>},
     genres : {<< >>, << << Action, Drama >> >>},
     vote_average : {<< >>, << 81 >>},
     vote_count : {<< >>, << 100 >>},
     tagline : {<< >>, << "Your mind" >>},
     status : {<< >>, << "Released" >>},
     release_date : {<< >>, << Date2010 >>},
     runtime : {<< >>, << 148 >>},
     budget : {<< >>, << 160 >>},
     revenue : {<< >>, << 800 >>}]

SeriesDetails ==
    [id : {<< >>, << 1 >>},
     title : {<< >>, << "Inception" >>},
     name : {<< >>, << "Friends" >>},
     overview : {<< >>, << "A thief" >>},
     genres : {<< >>, << << Action, Drama >> >>},
     vote_average : {<< >>, << 81 >>},
     vote_count : {<< >>, << 100 >>},
     tagline : {<< >>, << "Your mind" >>},
     status : {<< >>, << "Ended" >>},
     first_air_date : {<< >>, << Date1994 >>},
     last_air_date : {<< >>, << Date2010 >>},
     number_of_seasons : {<< >>, << 10 >>},
     number_of_episodes : {<< >>, << 236 >>},
     created_by : {<< >>, << << [name |-> "Crane"] >> >>},
     networks : {<< >>, << << [name |-> "NBC"] >> >>}]

DetailsInput(type, d) == [fn |-> "get_details", type |-> type, details |-> d]

\* get_details formats the payload of the title
FormatDetailsResult ==
    /\ provided.fn = "get_details"
    /\ formatted = NoOutput
    /\ formatted' = [fn |-> "get_details", type |-> provided.type,
                     out |-> FormatDetails(provided.details, provided.type)]
    /\ UNCHANGED <<now, limiterVars, cache, callers, pc, wakeAt, taskVars, cache_key, tool,
                   responses, client, constructed, provided, metricVars, api_key>>


\* the functions of tools.py applied to what the provider may return
InitFormat ==
    /\ InitState
    /\ callers = {}
    /\ request_times = <<>>
    /\ admitted = <<>>
    /\ \/ \E r \in TitleResults : provided = TitleInput(r)
       \/ \E d \in SourceDetails, r \in Candidates : provided = RecommendationInput(d, r)
       \/ \E d \in MovieDetails : provided = DetailsInput("movie", d)
       \/ \E d \in SeriesDetails : provided = DetailsInput("tv", d)
    /\ formatted = NoOutput

NextFormat ==
    \/ \E type \in MediaTypes : FormatTitleResult(type)
    \/ FormatRecommendation
    \/ FormatDetailsResult

SpecFormat == InitFormat /\ [][NextFormat]_vars

\* ------------------------------------------------------------ tools.py: result lists
\* the number of items search_title, get_recommendations and discover return
SEARCH_LIMIT == 10
RECOMMENDATION_LIMIT == 10
DISCOVER_LIMIT == 20

\* the longest results list of the provider
MaxResults == 21

\* variant: the last n items of the list
LastItems(results, n) == SubSeq(results, Len(results) - Min(n, Len(results)) + 1, Len(results))
\* results[:n]
FirstItems(results, n) == Slice(results, n)

\* the list of the formatted items, or what the first failing item raised
FormatAll(outs) ==
    LET failed == {i \in DOMAIN outs : outs[i].kind = "raise"}
    IN  IF failed # {}
        THEN outs[CHOOSE i \in failed : \A k \in failed : i <= k]
        ELSE Return([i \in DOMAIN outs |-> outs[i].val])

\* [format_title_result(r, type_str) for r in results[:10]]
SearchResults(results, type) ==
    FormatAll([i \in DOMAIN FirstItems(results, SEARCH_LIMIT) |->
                  FormatTitle(FirstItems(results, SEARCH_LIMIT)[i], type)])
\* the loop of get_recommendations over results[:10]
RecommendationResults(details, results) ==
    FormatAll([i \in DOMAIN FirstItems(results, RECOMMENDATION_LIMIT) |->
                  FormatCandidate(details, FirstItems(results, RECOMMENDATION_LIMIT)[i])])
\* [format_title_result(r, args.type) for r in results[:20]]
DiscoverResults(results, type) ==
    FormatAll([i \in DOMAIN FirstItems(results, DISCOVER_LIMIT) |->
                  FormatTitle(FirstItems(results, DISCOVER_LIMIT)[i], type)])

\* the item of a results list with the id i
Item(i) ==
    [id |-> << i >>, title |-> << "Inception" >>, name |-> << >>,
     release_date |-> << Date2010 >>, first_air_date |-> << >>, vote_average |-> << 81 >>,
     overview |-> << >>, poster_path |-> << >>, genre_ids |-> << << 28 >> >>]

\* results lists of every length up to MaxResults, the ids going up or down
ResultLists ==
    {[i \in 1 .. n |-> Item(first + i) ] : n \in 0 .. MaxResults, first \in 0 .. 1}
    \cup {[i \in 1 .. n |-> Item(first + n - i)] : n \in 0 .. MaxResults, first \in 0 .. 1}

TheSource == [title |-> << "Tenet" >>, name |-> << >>, genres |-> << << Action >> >>]

ListInputs == {[fn |-> "results", results |-> l, details |-> TheSource] : l \in ResultLists}

ListTools == {"search_title", "get_recommendations", "discover"}

\* a tool of tools.py turns the results list of the provider into its result
FormatResults(name, type) ==
    /\ provided.fn = "results"
    /\ formatted = NoOutput
    /\ formatted' =
          [fn |-> name, type |-> type,
           out |-> CASE name = "search_title" -> SearchResults(provided.results, type)
                     [] name = "get_recommendations" ->
                           RecommendationResults(provided.details, provided.results)
                     [] name = "discover" -> DiscoverResults(provided.results, type)]
    /\ UNCHANGED <<now, limiterVars, cache, callers, pc, wakeAt, taskVars, cache_key, tool,
                   responses, client, constructed, provided, metricVars, api_key>>

InitTruncate ==
    /\ InitState
    /\ callers = {}
    /\ request_times = <<>>
    /\ admitted = <<>>
    /\ provided \in ListInputs
    /\ formatted = NoOutput

NextTruncate ==
    \/ \E name \in ListTools, type \in MediaTypes : FormatResults(name, type)

SpecTruncate == InitTruncate /\ [][NextTruncate]_vars

\* ------------------------------------------------------------ agent/main.py
\* Texts are sequences of pieces, as in the tool layer; str(e) of an exception
\* is the piece that names it.
AgentTools == {"search_title", "get_recommendations", "get_details", "discover"}

\* how a tool call of the agent fails: an HTTP error status whose body is JSON
\* or not and has a detail, a text, or neither; a 2xx whose body is not JSON;
\* an exception of the transport
StatusOutcome(status, json, content) ==
    [kind |-> "status", status |-> status, json |-> json, content |-> content,
     error |-> "HTTPStatusError"]
InvalidJsonOutcome ==
    [kind |-> "invalid_json", status |-> 200, json |-> FALSE, content |-> << >>,
     error |-> "JSONDecodeError"]
ExceptionOutcome(e) ==
    [kind |-> "exception", status |-> 0, json |-> FALSE, content |-> << >>, error |-> e]

\* except (httpx.TimeoutException, httpx.ConnectError, httpx.NetworkError)
NetworkErrors == {"TimeoutException", "ConnectError", "NetworkError"}

ToolResult(error, message) == [error |-> error, message |-> message]

\* e.response.json().get("detail", str(e)), or e.response.text or str(e) when
\* the body is not JSON
ErrorDetail(o) == IF o.content # << >> THEN o.content[1] ELSE << o.error >>

\* call_tool, from the outcome of the POST on
CallTool(o) ==
    CASE o.kind = "invalid_json" ->
            ToolResult("INVALID_RESPONSE", << "Server returned invalid JSON: ", o.error >>)
      [] o.kind = "status" /\ o.status = 404 ->
            ToolResult("TITLE_NOT_FOUND", << "The requested title was not found." >>)
      [] o.kind = "status" /\ o.status = 429 ->
            ToolResult("RATE_LIMIT", << "Rate limit exceeded. Please try again later." >>)
      [] o.kind = "status" /\ o.status \notin {404, 429} ->
            ToolResult("API_ERROR", << "Error calling tool: " >> \o ErrorDetail(o))
      [] o.kind = "exception" /\ o.error \in NetworkErrors ->
            ToolResult("NETWORK_ERROR", << "Network error: ", o.error >>)
      [] OTHER ->
            ToolResult("UNKNOWN_ERROR", << "Unexpected error: ", o.error >>)

\* chat: the assistant message for a tool result that has an "error" key
ErrorReply(res) ==
    CASE res.error = "TITLE_NOT_FOUND" ->
            << "I couldn't find that title. Please try searching for it first, or check the spelling." >>
      [] res.error = "RATE_LIMIT" ->
            << "The API rate limit has been exceeded. Please wait a moment and try again." >>
      [] res.error = "NETWORK_ERROR" ->
            << "I'm having trouble connecting to the server. Please make sure the MCP server is running." >>
      [] OTHER ->
            << "I encountered an error: " >> \o res.message
                \o << ". Please try again or rephrase your question." >>

\* the exceptions a client method ends with below a tool
ClientErrors ==
    {"TITLE_NOT_FOUND", "JSONDecodeError", "RATE_LIMIT", "HTTPStatusError", "RequestError",
     "AttributeError"}

\* the details of the error responses of the server's endpoints
ServerDetails ==
    {HttpRaises(name, ToolRaises(name, e)).detail : name \in AgentTools, e \in ClientErrors}
    \cup {ValidationError.msg, ConfigurationError.msg}

\* the body of an error response: nothing usable, a detail of the server, or a
\* text that is not JSON
ErrorContents == {<< >>, << << "Internal Server Error" >> >>} \cup {<< d >> : d \in ServerDetails}

ErrorStatuses == {400, 404, 422, 429, 500}

ChatInput(name, o) == [fn |-> "chat", tool |-> name, outcome |-> o]

\* chat, from the function call of the model to the assistant message, when
\* the tool call fails
Chat ==
    /\ provided.fn = "chat"
    /\ formatted = NoOutput
    /\ formatted' = [fn |-> "chat", error |-> CallTool(provided.outcome).error,
                     out |-> ErrorReply(CallTool(provided.outcome))]
    /\ UNCHANGED <<now, limiterVars, cache, callers, pc, wakeAt, taskVars, cache_key, tool,
                   responses, client, constructed, provided, metricVars, api_key>>

\* one failed tool call of the agent, of every kind of failure
InitAgent ==
    /\ InitState
    /\ callers = {}
    /\ request_times = <<>>
    /\ admitted = <<>>
    /\ \E name \in AgentTools :
          \/ \E status \in ErrorStatuses, json \in BOOLEAN, content \in ErrorContents :
                provided = ChatInput(name, StatusOutcome(status, json, content))
          \/ provided = ChatInput(name, InvalidJsonOutcome)
          \/ \E e \in NetworkErrors \cup {"RuntimeError"} :
                provided = ChatInput(name, ExceptionOutcome(e))
    /\ formatted = NoOutput

NextAgent ==
    \/ Chat

SpecAgent == InitAgent /\ [][NextAgent]_vars

\* ------------------------------------------------------------ claims
\* number of remembered admissions inside the trailing window of the clock
InWindow == Cardinality({i \in DOMAIN admitted : now - admitted[i] < WINDOW_SECONDS})

\* C1: at most 40 admitted requests have timestamps inside the trailing
\* 10-second interval, whatever the number of concurrent callers
C1_AtMostFortyInWindow == InWindow <= RATE_LIMIT_WINDOW

\* C2: for a single caller, the 41st admission completes no earlier than
\* 10 seconds after the oldest of the previous 40 admissions
C2_FortyFirstDelayed ==
    Len(admitted) = RATE_LIMIT_WINDOW + 1
        => admitted[RATE_LIMIT_WINDOW + 1] - admitted[1] >= WINDOW_SECONDS

C2_Witness ==
    /\ Len(admitted) = RATE_LIMIT_WINDOW + 1
    /\ admitted[RATE_LIMIT_WINDOW] < admitted[RATE_LIMIT_WINDOW + 1]
    /\ admitted[RATE_LIMIT_WINDOW + 1] = admitted[1] + WINDOW_SECONDS
    /\ admitted[2] > admitted[1]

Last(seq) == seq[Len(seq)]

\* the dispatch of task t has ended
Ended(t) == pc[t] = "idle" /\ dispatched[t] > 0

Only429(t) == \A i \in DOMAIN outcomes[t] : outcomes[t][i] \in {"429", "429+Retry-After"}

\* C3: a dispatch whose 3 attempts were all answered 429 ends by raising
\* RateLimitError("RATE_LIMIT"); it returns no value
C3_ExhaustedRaisesRateLimit ==
    \A t \in Tasks :
        (Ended(t) /\ Len(outcomes[t]) = MAX_RETRIES /\ Only429(t))
            => result[t] = Raise("RATE_LIMIT")

\* C4: once an attempt received a 404 the dispatch has ended with
\* TITLE_NOT_FOUND, slept no backoff for it and made no further transport
\* call; a 404 as the first response means exactly one transport call
C4_NotFoundFailsAtOnce ==
    \A t \in Tasks :
        (outcomes[t] # <<>> /\ Last(outcomes[t]) = "404")
            => /\ pc[t] = "idle"
               /\ result[t] = Raise("TITLE_NOT_FOUND")
               /\ Len(delays[t]) = Len(outcomes[t]) - 1
               /\ sent[t] = Len(outcomes[t])
               /\ (Len(outcomes[t]) = 1 => sent[t] = 1)

C4_Witness ==
    \E t \in Tasks :
        /\ outcomes[t] = <<"404">>
        /\ sent[t] = 1
        /\ delays[t] = <<>>
        /\ result[t] = Raise("TITLE_NOT_FOUND")

Retryable == {"429", "429+Retry-After", "HTTPStatusError", "RequestError"}

\* C5: a dispatch makes at most 3 transport calls, and every call after the
\* first follows a retryable failure of the call before it
C5_AtMostThreeAttempts ==
    \A t \in Tasks :
        /\ sent[t] <= MAX_RETRIES
        /\ Len(outcomes[t]) <= sent[t]
        /\ \A i \in DOMAIN outcomes[t] : i < sent[t] => outcomes[t][i] \in Retryable

C5_Witness ==
    \E t \in Tasks :
        /\ sent[t] = MAX_RETRIES
        /\ outcomes[t] = <<"HTTPStatusError", "429", "RequestError">>
        /\ result[t] = Raise("RequestError")

\* a useCache dispatch of task u went to the network, succeeded and stored its
\* payload at doneAt[u]
Stored(u) ==
    /\ Ended(u)
    /\ req[u].use_cache
    /\ outcomes[u] # <<>>
    /\ Last(outcomes[u]) = "2xx"

\* task t starts a dispatch in this step
StartOf(t) == dispatched'[t] = dispatched[t] + 1

\* C6 as stated: after a successful useCache dispatch, every later dispatch of
\* the same endpoint and parameters that starts less than 300 seconds after the
\* entry was stored makes no transport call and returns the same payload
C6_LaterDispatchSamePayload ==
    [][\A t, u \in Tasks :
          (StartOf(t) /\ Stored(u) /\ KeyOf(req'[t]) = KeyOf(req[u])
              /\ now - doneAt[u] < CACHE_TTL)
          => (pc'[t] = "idle" /\ sent'[t] = 0 /\ result'[t] = result[u])]_vars

\* C6 as amended: such a later dispatch, when it is called with useCache, makes
\* no transport call and returns the payload the cache then holds for the
\* fingerprint
C6_LaterCachedDispatchServed ==
    [][\A t, u \in Tasks :
          (StartOf(t) /\ req'[t].use_cache /\ Stored(u)
              /\ KeyOf(req'[t]) = KeyOf(req[u]) /\ now - doneAt[u] < CACHE_TTL)
          => /\ pc'[t] = "idle"
             /\ sent'[t] = 0
             /\ KeyOf(req[u]) \in DOMAIN cache
             /\ result'[t] = Return(cache[KeyOf(req[u])].data)]_vars

\* a dispatch served from the cache CACHE_TTL - 1 seconds after another task's
\* dispatch stored the entry
C6_Witness ==
    \E t, u \in Tasks :
        /\ t # u
        /\ Stored(u)
        /\ Ended(t)
        /\ req[t] = req[u]
        /\ sent[t] = 0
        /\ result[t] = result[u]
        /\ doneAt[t] = doneAt[u] + CACHE_TTL - 1

KeyHoldsCredential(key) == \E i \in DOMAIN key[2] : key[2][i][2] = API_KEY

\* C8: the credential occurs in no cache key and in no cached payload
C8_CredentialNotCached ==
    \A key \in DOMAIN cache :
        ~KeyHoldsCredential(key) /\ cache[key].data # API_KEY

RECURSIVE Pow2(_)
Pow2(n) == IF n = 0 THEN 1 ELSE 2 * Pow2(n - 1)

\* C9: without a Retry-After header, the delay slept before the k-th retry is
\* min(1.0 * 2^(k-1), 60), whichever retryable failures came before
C9_BackoffDoubles ==
    \A t \in Tasks : \A k \in DOMAIN delays[t] :
        (k < MAX_RETRIES /\ outcomes[t][k] # "429+Retry-After")
            => delays[t][k] = Min(INITIAL_BACKOFF * Pow2(k - 1), MAX_BACKOFF)

\* C10: in a dispatch answered 429 without Retry-After on every attempt, the
\* delays slept are non-decreasing and each is at most 60 seconds
C10_DelaysMonotoneBounded ==
    \A t \in Tasks :
        (\A i \in DOMAIN outcomes[t] : outcomes[t][i] = "429")
            => /\ \A i \in DOMAIN delays[t] : delays[t][i] <= MAX_BACKOFF
               /\ \A i, j \in DOMAIN delays[t] : i <= j => delays[t][i] <= delays[t][j]

C10_Witness ==
    \E t \in Tasks :
        /\ outcomes[t] = <<"429", "429", "429">>
        /\ Len(delays[t]) = MAX_RETRIES
        /\ Ended(t)

ErrorsBefore(outs, k) ==
    Cardinality({i \in 1 .. (k - 1) : outs[i] \in ErrorKinds})

\* the value of _request's backoff when the k-th response arrives: doubled once
\* for each error that was slept on before
BackoffAt(outs, k) == Min(INITIAL_BACKOFF * Pow2(ErrorsBefore(outs, k)), MAX_BACKOFF)

\* C11: the delay slept after a 429 that carries Retry-After: r is r seconds;
\* after a 429 without the header it is the current backoff value
C11_RetryAfterHonoured ==
    \A t \in Tasks : \A k \in DOMAIN delays[t] :
        /\ outcomes[t][k] = "429+Retry-After"
              => \E h \in RetryAfterHeaders : h # <<>> /\ delays[t][k] = h[1]
        /\ outcomes[t][k] = "429" => delays[t][k] = BackoffAt(outcomes[t], k)

C11_Witness ==
    \E t \in Tasks :
        /\ outcomes[t] = <<"HTTPStatusError", "429+Retry-After", "429">>
        /\ delays[t] = <<1, 3, 2>>

\* C16: once an attempt received a 2xx response with a JSON body, the dispatch
\* has ended returning exactly that body, with no transport call and no sleep
\* after it
C16_SuccessShortCircuits ==
    \A t \in Tasks :
        (outcomes[t] # <<>> /\ Last(outcomes[t]) = "2xx")
            => /\ pc[t] = "idle"
               /\ result[t] = Return(body[t])
               /\ sent[t] = Len(outcomes[t])
               /\ Len(delays[t]) = Len(outcomes[t]) - 1

\* a success on the third attempt, after two retried failures
C16_Witness ==
    \E t \in Tasks :
        /\ outcomes[t] = <<"RequestError", "429", "2xx">>
        /\ body[t] \in Payloads
        /\ result[t] = Return(body[t])
        /\ sent[t] = MAX_RETRIES
        /\ Len(delays[t]) = 2

\* the dispatch task t starts in this step is answered from the cache
ServedFromCache(t) == StartOf(t) /\ pc'[t] = "idle" /\ sent'[t] = 0

\* the dispatch task t starts in this step goes to the network
GoesToNetwork(t) ==
    StartOf(t) /\ pc'[t] \in {"transport", "rl_sleep"} /\ result'[t] = Pending

\* C17: a dispatch is answered from the cache only while now - storedAt < 300;
\* a useCache dispatch that starts 300 seconds or more after the entry was
\* stored goes to the network
C17_ExpiredEntryNotServed ==
    [][\A t \in Tasks :
          /\ ServedFromCache(t)
                => /\ KeyOf(req'[t]) \in DOMAIN cache
                   /\ now - cache[KeyOf(req'[t])].timestamp < CACHE_TTL
          /\ (StartOf(t) /\ req'[t].use_cache /\ KeyOf(req'[t]) \in DOMAIN cache
                 /\ now - cache[KeyOf(req'[t])].timestamp >= CACHE_TTL)
                => GoesToNetwork(t)]_vars

\* a useCache dispatch on the network exactly CACHE_TTL seconds after the entry
\* for its fingerprint was stored
C17_Witness ==
    \E t \in Tasks :
        /\ pc[t] = "transport"
        /\ outcomes[t] = <<>>
        /\ req[t].use_cache
        /\ KeyOf(req[t]) \in DOMAIN cache
        /\ now - cache[KeyOf(req[t])].timestamp = CACHE_TTL

\* task t receives a 2xx response for fingerprint key in this step
FetchSucceeds(t, key) ==
    /\ pc[t] = "transport"
    /\ KeyOf(req[t]) = key
    /\ outcomes'[t] = Append(outcomes[t], "2xx")

\* C18: no step removes a cache entry, and the entry of a fingerprint appears
\* or changes only in a step in which a fetch for that fingerprint succeeds
C18_CacheOnlyGrows ==
    [][/\ DOMAIN cache \subseteq DOMAIN cache'
       /\ \A key \in DOMAIN cache' :
             (key \notin DOMAIN cache \/ cache'[key] # cache[key])
                => \E t \in Tasks : FetchSucceeds(t, key)]_vars

\* both fingerprints cached, one entry rewritten by a later fetch
C18_Witness ==
    \E k1, k2 \in DOMAIN cache :
        /\ k1 # k2
        /\ cache[k1].timestamp = 0
        /\ cache[k2].timestamp = CACHE_TTL
        /\ \E t, u \in Tasks :
              /\ t # u
              /\ Stored(t) /\ Stored(u)
              /\ KeyOf(req[t]) = k2 /\ KeyOf(req[u]) = k2
              /\ doneAt[t] < doneAt[u]

\* the set of (name, value) pairs of a params dict
ItemSet(items) == {items[i] : i \in DOMAIN items}

\* C19: two requests with the same endpoint and the same set of (name, value)
\* parameters have identical fingerprints, whatever the order the parameters
\* were inserted in
C19_KeyIgnoresInsertionOrder ==
    \A t, u \in Tasks :
        (/\ cache_key[t] # NoKey
         /\ cache_key[u] # NoKey
         /\ req[t].endpoint = req[u].endpoint
         /\ ItemSet(req[t].params) = ItemSet(req[u].params))
            => cache_key[t] = cache_key[u]

\* the same three parameters inserted in opposite orders
C19_Witness ==
    \E t, u \in Tasks :
        /\ cache_key[t] # NoKey
        /\ cache_key[t] = cache_key[u]
        /\ Len(req[t].params) = 4
        /\ req[t].params[1][1] = "year" /\ req[t].params[3][1] = "query"
        /\ req[u].params[1][1] = "query" /\ req[u].params[3][1] = "year"
        /\ req[t].params # req[u].params

\* the tool calls that ended, by what made them end
EndedBy(cause) == {i \in DOMAIN responses : responses[i].cause = cause}

\* the causes of failure the error taxonomy tells apart
FailureCauses ==
    {"ValidationError", "TITLE_NOT_FOUND", "HTTPStatusError", "RequestError",
     "JSONDecodeError"}

\* C12: tool calls whose dispatch was exhausted by error statuses, tool calls
\* exhausted by transport errors and tool calls with invalid arguments are
\* answered with errors of three different kinds
C12_UpstreamTransportDistinct ==
    \A i, j \in DOMAIN responses :
        (/\ responses[i].cause \in {"HTTPStatusError", "RequestError", "ValidationError"}
         /\ responses[j].cause \in {"HTTPStatusError", "RequestError", "ValidationError"}
         /\ responses[i].cause # responses[j].cause)
            => responses[i].status # responses[j].status

\* C13: a tool call of any of the four tools that ended on an upstream 404 is
\* answered with the sentinel: HTTP 404, TITLE_NOT_FOUND
C13_NotFoundIsSentinel ==
    \A i \in EndedBy("TITLE_NOT_FOUND") :
        responses[i].status = 404 /\ responses[i].detail = << "TITLE_NOT_FOUND" >>

\* C14: a tool call that ended on a 2xx reply with an unparsable body is
\* answered with an error of a kind of its own: no call that failed for another
\* cause gets the same status, and the detail does not call it invalid arguments
C14_MalformedIsOwnKind ==
    \A i \in EndedBy("JSONDecodeError") :
        /\ responses[i].detail[1] # "Invalid arguments: "
        /\ \A j \in DOMAIN responses :
              (responses[j].cause \in FailureCauses \ {"JSONDecodeError"})
                  => responses[j].status # responses[i].status

\* the arguments carry a type outside {movie, tv} or a sort_by outside
\* {popularity, vote_average}
OutOfRange(a) ==
    \/ (a.type # None /\ a.type \notin MediaTypes)
    \/ (a.sort_by # None /\ a.sort_by \notin SortKeys)

\* task t takes up a tool call in this step
CallOf(t) == tool[t].stage \in {"none", "done"} /\ tool'[t] # tool[t]

\* C15: a tool call whose type or sort_by is out of range fails with a
\* validation error at once, makes no transport call and leaves the cache and
\* the timestamp log as they were
C15_InvalidArgsRejected ==
    [][\A t \in Tasks :
          (CallOf(t) /\ OutOfRange(tool'[t]))
              => /\ tool'[t].stage = "done"
                 /\ responses' # responses
                 /\ Last(responses').cause = "ValidationError"
                 /\ pc'[t] = "idle"
                 /\ UNCHANGED <<cache, request_times, sent, dispatched>>]_vars

\* the name matches a genre of the provider's list but for the case
Matches(name, list) == \E i \in DOMAIN list : Lower(list[i].name) = Lower(name)
IdOf(name, list) ==
    list[CHOOSE i \in DOMAIN list : Lower(list[i].name) = Lower(name)].id

\* the ids of the names that match, in the order of the names
MatchedIds(names, list) ==
    LET matched == SelectSeq(names, LAMBDA n : Matches(n, list))
    IN  [i \in DOMAIN matched |-> IdOf(matched[i], list)]

HasParam(items, name) == \E i \in DOMAIN items : items[i][1] = name
ParamOf(items, name) == items[CHOOSE i \in DOMAIN items : items[i][1] = name][2]

\* discover of task t gets the provider's genre list in this step
GenresArrive(t) ==
    /\ tool[t].tool = "discover"
    /\ tool[t].stage = "first"
    /\ tool[t].genre # << >>
    /\ tool'[t] # tool[t]
    /\ result[t].kind = "return"

\* C20: whatever the list of genre names, discover goes on to its request
\* without an error, and the request's with_genres holds exactly the ids of the
\* names that match a genre of the provider's list but for the case, in input
\* order; it has no with_genres when no name matches
C20_GenresResolved ==
    [][\A t \in Tasks :
          GenresArrive(t) =>
              LET ids == MatchedIds(tool[t].genre, GenresOf(result[t].val))
              IN  /\ tool'[t].stage = "second"
                  /\ req'[t].endpoint = "/discover/movie"
                  /\ HasParam(req'[t].params, "with_genres") <=> ids # << >>
                  /\ ids # << >> => ParamOf(req'[t].params, "with_genres") = JoinIds(ids)]_vars

\* DRAMA and action resolved in input order, western dropped
C20_Witness ==
    \E t \in Tasks :
        /\ tool[t].genre = << "DRAMA", "western", "action" >>
        /\ tool[t].stage = "second"
        /\ req[t].endpoint = "/discover/movie"
        /\ ParamOf(req[t].params, "with_genres") = "18,28"

\* C27: a dispatch that starts while another task's dispatch of the same
\* fingerprint is on the transport and nothing fresh is cached goes to the
\* network as well, and a dispatch that receives a 2xx returns the body of its
\* own response
C27_DuplicatesNotCoalesced ==
    [][\A t \in Tasks :
          /\ \A u \in Tasks \ {t} :
                (/\ StartOf(t)
                 /\ pc[u] = "transport"
                 /\ KeyOf(req'[t]) = KeyOf(req[u])
                 /\ ~CacheHit(KeyOf(req[u]), now))
                    => GoesToNetwork(t)
          /\ (pc[t] = "transport" /\ outcomes'[t] = Append(outcomes[t], "2xx"))
                => result'[t] = Return(body'[t])]_vars

\* two useCache dispatches of one request that both went to the network at
\* the same time and returned different payloads
C27_Witness ==
    \E t, u \in Tasks :
        /\ t # u
        /\ req[t] = req[u]
        /\ req[t].use_cache
        /\ outcomes[t] = << "2xx" >> /\ outcomes[u] = << "2xx" >>
        /\ sent[t] = 1 /\ sent[u] = 1
        /\ doneAt[t] = doneAt[u]
        /\ result[t] # result[u]
        /\ pc[t] = "idle" /\ pc[u] = "idle"

\* C28: while a task is suspended between its capacity evaluation and its
\* append, no other task's admission changes the timestamp log
C28_NoAdmissionWhileSuspended ==
    [][\A u \in Tasks :
          (pc[u] = "admit_sleep" /\ pc'[u] = "admit_sleep")
              => (admitted' = admitted /\ request_times' = request_times)]_vars

\* C29: the timestamp log is in non-decreasing order, holds at most
\* RATE_LIMIT_WINDOW entries, and every entry is less than WINDOW_SECONDS
\* older than the timestamp appended last
C29_LogOrderedBoundedRecent ==
    request_times # <<>> =>
        /\ \A i, j \in DOMAIN request_times : i <= j => request_times[i] <= request_times[j]
        /\ Len(request_times) <= RATE_LIMIT_WINDOW
        /\ \A i \in DOMAIN request_times :
              Last(request_times) - request_times[i] < WINDOW_SECONDS

\* the dispatch of t that has ended did not produce a payload
DispatchFailed(t) == ~(result[t].kind = "return" /\ result[t].val # None)

\* t starts a dispatch in this step
Dispatches(t) == dispatched'[t] = dispatched[t] + 1

\* C22: a get_recommendations call dispatches the details request first and
\* the recommendations request only after the details dispatch returned a
\* payload; when the details dispatch fails the call ends without another
\* dispatch and answers with that failure
C22_DetailsBeforeRecommendations ==
    [][\A t \in Tasks :
          /\ (tool'[t].tool = "get_recommendations" /\ tool'[t].stage = "first"
              /\ tool[t].stage # "first")
                => (/\ Dispatches(t)
                    /\ req'[t].endpoint = DetailsRequestOf(tool'[t].type).endpoint)
          /\ (tool[t].tool = "get_recommendations" /\ Dispatches(t)
              /\ req'[t].endpoint = RecommendationsRequestOf(tool[t].type).endpoint)
                => (/\ tool[t].stage = "first"
                    /\ req[t].endpoint = DetailsRequestOf(tool[t].type).endpoint
                    /\ ~DispatchFailed(t))
          /\ (tool[t].tool = "get_recommendations" /\ tool[t].stage = "first"
              /\ pc[t] = "idle" /\ DispatchFailed(t) /\ tool'[t] # tool[t])
                => (/\ ~Dispatches(t)
                    /\ sent' = sent
                    /\ tool'[t].stage = "done"
                    /\ Len(responses') = Len(responses) + 1
                    /\ Last(responses').cause = ClientRaises(result[t])
                    /\ Last(responses').status # 200)]_vars

\* a get_recommendations call that ended on the failure of its details
\* dispatch, having dispatched once
C22_Witness ==
    \E t \in Tasks :
        /\ tool[t].tool = "get_recommendations"
        /\ tool[t].stage = "done"
        /\ dispatched[t] = 1
        /\ req[t].endpoint = DetailsRequestOf(tool[t].type).endpoint
        /\ result[t] = Raise("TITLE_NOT_FOUND")
        /\ Len(responses) = 1
        /\ responses[1].status = 404

\* the fingerprint of the details request of the call a
DetailsKey(a) == KeyOf([DetailsRequestOf(a.type) EXCEPT !.params = WithApiKey(@)])

\* t starts serving a get_recommendations call in this step
StartsRecommendations(t) ==
    /\ tool[t].stage \in {"none", "done"}
    /\ tool'[t].stage = "first"
    /\ tool'[t].tool = "get_recommendations"

\* C30: the endpoints construct at most one client, and a get_recommendations
\* call that starts while the details payload another call fetched is cached
\* and fresh is served that payload with no admission and no transport call
C30_OneClientSharedCache ==
    [][/\ constructed' <= 1
       /\ (constructed = 1 => (constructed' = 1 /\ client' = client))
       /\ \A t \in Tasks :
             (StartsRecommendations(t) /\ CacheHit(DetailsKey(tool'[t]), now))
                => (/\ sent'[t] = 0
                    /\ result'[t] = Return(cache[DetailsKey(tool'[t])].data)
                    /\ request_times' = request_times
                    /\ cache' = cache)]_vars

\* get_details, then 299 s later get_recommendations for the same title, both
\* answered with a payload: two admissions in all, the details entry still the
\* one stored at 0
C30_Witness ==
    /\ Len(responses) = 2
    /\ responses[1].tool = "get_details" /\ responses[1].status = 200
    /\ responses[2].tool = "get_recommendations" /\ responses[2].status = 200
    /\ constructed = 1
    /\ now = CACHE_TTL - 1
    /\ Len(admitted) = 2
    /\ \E k \in DOMAIN cache : cache[k].timestamp = 0
    /\ \E k \in DOMAIN cache : cache[k].timestamp = CACHE_TTL - 1

\* the decimal digits of a number below 10000, as int() reads them back
DigitChar(n) ==
    CASE n = 0 -> "0" [] n = 1 -> "1" [] n = 2 -> "2" [] n = 3 -> "3" [] n = 4 -> "4"
      [] n = 5 -> "5" [] n = 6 -> "6" [] n = 7 -> "7" [] n = 8 -> "8" [] n = 9 -> "9"
FourDigits(n) ==
    << DigitChar(n \div 1000), DigitChar((n \div 100) % 10), DigitChar((n \div 10) % 10),
       DigitChar(n % 10) >>

\* the key of the item holds a non-empty string
Present(r, key) == r[key] # << >> /\ r[key][1] # EmptyDate

\* the date string the year is read from: release_date when present,
\* otherwise first_air_date, otherwise none
DateStrings(r) ==
    IF Present(r, "release_date") THEN {r.release_date[1]}
    ELSE IF Present(r, "first_air_date") THEN {r.first_air_date[1]}
    ELSE {}

TitleFormatted ==
    provided.fn = "format_title_result" /\ formatted.fn = "format_title_result"
    /\ formatted.out.kind = "return"

\* C23: the year of a normalized title is the integer whose digits are the
\* first 4 characters of release_date when present, otherwise of
\* first_air_date, and is None when that date string is absent or shorter
\* than 4 characters
C23_YearFromDate ==
    TitleFormatted =>
        LET year == formatted.out.val.year
            dates == DateStrings(provided.result)
        IN  /\ (\E d \in dates : Len(d) >= 4)
                => (year # << >> /\ \A d \in dates : FourDigits(year[1]) = SubSeq(d, 1, 4))
            /\ (\A d \in dates : Len(d) < 4) => year = << >>

\* an item with release_date "2010-07-16" and a first_air_date of another year
\* formatted with the year 2010
C23_Witness ==
    /\ TitleFormatted
    /\ provided.result.release_date = << Date2010 >>
    /\ provided.result.first_air_date = << Date1994 >>
    /\ formatted.out.val.year = << 2010 >>

RecommendationFormatted ==
    provided.fn = "get_recommendations" /\ formatted.fn = "get_recommendations"
    /\ formatted.out.kind = "return"

\* the candidate's genre-ID set intersects the source's
SharesGenre ==
    \E g \in SetOf(Get(provided.details, "genres", << >>)) :
        \E i \in DOMAIN Get(provided.result, "genre_ids", << >>) :
            Get(provided.result, "genre_ids", << >>)[i] = g.id

RatedAtLeast(n) == provided.result.vote_average # << >> /\ provided.result.vote_average[1] >= n

Count(text, piece) == Cardinality({i \in DOMAIN text : text[i] = piece})

\* C21: the reason is "Similar to {original_title}", followed by one
\* parenthetical exactly when a qualifier applies; the shared-genre mention,
\* with at most 2 genre names, is there iff the genre-ID sets intersect,
\* "highly rated" iff the rating is at least 7.5, and both stand comma-joined
\* in the same parenthetical
C21_ReasonQualifiers ==
    RecommendationFormatted =>
        LET reason == formatted.out.val.reason
            n == Len(reason)
            genres == {i \in DOMAIN reason : i > 2 /\ reason[i] \in {"Action", "Drama", "Adventure"}}
        IN  /\ SubSeq(reason, 1, 2) = << "Similar to ", TitleOf(provided.details) >>
            /\ Count(reason, " (") = (IF SharesGenre \/ RatedAtLeast(HIGHLY_RATED) THEN 1 ELSE 0)
            /\ Count(reason, ")") = Count(reason, " (")
            /\ Count(reason, " (") = 1 => (reason[3] = " (" /\ reason[n] = ")")
            /\ Count(reason, " (") = 0 => n = 2
            /\ Count(reason, "shared ") = (IF SharesGenre THEN 1 ELSE 0)
            /\ Count(reason, " genres") = Count(reason, "shared ")
            /\ SharesGenre => (reason[4] = "shared " /\ Cardinality(genres) \in {1, 2})
            /\ ~SharesGenre => genres = {}
            /\ Count(reason, "highly rated") = (IF RatedAtLeast(HIGHLY_RATED) THEN 1 ELSE 0)
            /\ RatedAtLeast(HIGHLY_RATED) => reason[n - 1] = "highly rated"
            /\ (SharesGenre /\ RatedAtLeast(HIGHLY_RATED))
                  => (reason[n - 3] = " genres" /\ reason[n - 2] = ", ")

\* a candidate rated exactly 7.5 that shares three genres with the source:
\* two of them named, then "highly rated", in one parenthetical
C21_Witness ==
    /\ RecommendationFormatted
    /\ provided.result.vote_average = << HIGHLY_RATED >>
    /\ formatted.out.val.reason =
          << "Similar to ", "Inception", " (", "shared ", "Action", ", ", "Drama", " genres",
             ", ", "highly rated", ")" >>

DetailsFormatted ==
    provided.fn = "get_details" /\ formatted.fn = "get_details" /\ formatted.out.kind = "return"

NormalizedTitleKeys == {"id", "title", "type", "year", "rating", "overview", "poster_path"}
MovieKeys == {"runtime", "budget", "revenue", "release_date"}
SeriesKeys == {"first_air_date", "last_air_date", "number_of_seasons", "number_of_episodes",
               "networks", "created_by"}

\* C25: the result of get_details has every key of a normalized title and,
\* for a movie, the movie keys and no series key, for a series the series
\* keys and no movie key
C25_DetailsHoldTitleFields ==
    DetailsFormatted =>
        LET keys == DOMAIN formatted.out.val
        IN  /\ NormalizedTitleKeys \subseteq keys
            /\ formatted.type = "movie" => (MovieKeys \subseteq keys /\ keys \cap SeriesKeys = {})
            /\ formatted.type = "tv" => (SeriesKeys \subseteq keys /\ keys \cap MovieKeys = {})

\* a text that stands for a missing one: the empty string or a placeholder
TextDefault(v, placeholders) == v = "" \/ v \in placeholders

\* the keys get_details copies with details.get(key)
CopiedKeys(type) ==
    {"id", "tagline", "status"}
    \cup (IF type = "movie" THEN MovieKeys
          ELSE {"first_air_date", "last_air_date", "number_of_seasons", "number_of_episodes"})

\* every field whose keys the provider left out holds None, nothing, zero, an
\* empty text or one of the placeholders
AbsentDefaulted(placeholders) ==
    /\ (TitleFormatted \/ RecommendationFormatted) =>
          LET r == provided.result
              out == formatted.out.val
          IN  /\ (r.title = << >> /\ r.name = << >>) => TextDefault(out.title, placeholders)
              /\ (r.release_date = << >> /\ r.first_air_date = << >>) => out.year = << >>
    /\ TitleFormatted =>
          LET r == provided.result
              out == formatted.out.val
          IN  /\ r.vote_average = << >> => out.rating = 0
              /\ r.overview = << >> => TextDefault(out.overview, placeholders)
              /\ r.poster_path = << >> => out.poster_path = << >>
    /\ RecommendationFormatted =>
          LET reason == formatted.out.val.reason
          IN  /\ (provided.details.genres = << >> \/ provided.result.genre_ids = << >>)
                    => Count(reason, "shared ") = 0
              /\ provided.result.vote_average = << >> => Count(reason, "highly rated") = 0
              /\ (provided.details.title = << >> /\ provided.details.name = << >>)
                    => TextDefault(reason[2], placeholders)
    /\ DetailsFormatted =>
          LET d == provided.details
              out == formatted.out.val
          IN  /\ (d.title = << >> /\ d.name = << >>) => TextDefault(out.title, placeholders)
              /\ d.overview = << >> => TextDefault(out.overview, placeholders)
              /\ d.genres = << >> => out.genres = << >>
              /\ d.vote_average = << >> => out.rating = 0
              /\ d.vote_count = << >> => out.vote_count = 0
              /\ \A key \in CopiedKeys(provided.type) : d[key] = << >> => out[key] = << >>
              /\ provided.type = "tv" =>
                    /\ d.created_by = << >> => out.created_by = << >>
                    /\ d.networks = << >> => out.networks = << >>

\* a function applied to an object that has its id returns a result
NeverFails ==
    (formatted.fn # "none" /\ (provided.fn = "get_details" \/ provided.result.id # << >>))
        => formatted.out.kind = "return"

\* C26 as stated: whatever optional keys the provider leaves out, each
\* function returns a result, and the fields of the missing keys are None,
\* empty or zero
C26_AbsentFieldsEmpty == NeverFails /\ AbsentDefaulted({})

\* C26: whatever optional keys the provider leaves out, each function returns
\* a result, and the fields of the missing keys are None, empty, zero, or the
\* placeholder "Unknown" of a title and "No overview available" of the
\* overview of get_details
C26_AbsentFieldsDefaulted ==
    NeverFails /\ AbsentDefaulted({"Unknown", "No overview available"})

\* a search result that has nothing but its id, formatted
C26_Witness ==
    /\ TitleFormatted
    /\ \A key \in DOMAIN provided.result : key # "id" => provided.result[key] = << >>
    /\ formatted.out.val.title = "Unknown"
    /\ formatted.out.val.year = << >>
    /\ formatted.out.val.poster_path = << >>

ListFormatted ==
    provided.fn = "results" /\ formatted.fn \in ListTools /\ formatted.out.kind = "return"

\* the number of items a tool may return
AtMost(name) == IF name = "discover" THEN 20 ELSE 10

\* the normalization of one item by the tool
Normalized(name, type, r) ==
    IF name = "get_recommendations"
    THEN FormatCandidate(provided.details, r).val
    ELSE FormatTitle(r, type).val

\* C24: search_title and get_recommendations return at most 10 items and
\* discover at most 20: the normalizations of the first items of the
\* provider's list, in the provider's order
C24_FirstItemsInOrder ==
    ListFormatted =>
        LET out == formatted.out.val
            results == provided.results
        IN  /\ Len(out) <= AtMost(formatted.fn)
            /\ Len(out) = Min(Len(results), AtMost(formatted.fn))
            /\ \A i \in DOMAIN out :
                  out[i] = Normalized(formatted.fn, formatted.type, results[i])

\* discover given more than 20 results in descending order of id returns the
\* first 20 of them
C24_Witness ==
    /\ ListFormatted
    /\ formatted.fn = "discover"
    /\ Len(provided.results) > 20
    /\ provided.results[1].id[1] > provided.results[2].id[1]
    /\ Len(formatted.out.val) = 20
    /\ formatted.out.val[20].id = provided.results[20].id[1]

\* t makes a transport attempt in this step: the first of a dispatch that
\* starts, or one more of the dispatch under way
Attempts(t) == IF StartOf(t) THEN sent'[t] = 1 ELSE sent'[t] = sent[t] + 1

\* C33: every transport attempt of a dispatch, the first and the retries, is
\* made in the step that appends its admission timestamp to the log, and the
\* log gets a timestamp only for a transport attempt
C33_OneAdmissionPerAttempt ==
    [][/\ \A t \in Tasks :
             Attempts(t)
                => (/\ request_times' = Append(Prune(request_times, now'), now')
                    /\ admitted' = Remember(admitted, now')
                    /\ pc'[t] = "transport")
       /\ \A t \in Tasks :
             ~Attempts(t) => sent'[t] = (IF StartOf(t) THEN 0 ELSE sent[t])
       /\ admitted' # admitted => \E t \in Tasks : Attempts(t)]_vars

\* a dispatch from a cold client that made three transport attempts: three
\* timestamps in the log's history
C33_Witness ==
    \E t \in Tasks :
        /\ dispatched[t] = 1
        /\ sent[t] = MAX_RETRIES
        /\ Len(outcomes[t]) = MAX_RETRIES
        /\ Len(admitted) = MAX_RETRIES
        /\ admitted[MAX_RETRIES] > admitted[1]

\* C34: a dispatch answered from the cache leaves the log and the cache as
\* they were, entry timestamps included, and ends in the same step without a
\* sleep
C34_CacheHitChangesNothing ==
    [][\A t \in Tasks :
          (StartOf(t) /\ req'[t].use_cache /\ CacheHit(KeyOf(req'[t]), now))
              => (/\ request_times' = request_times
                  /\ admitted' = admitted
                  /\ cache' = cache
                  /\ now' = now
                  /\ pc'[t] = "idle"
                  /\ wakeAt' = wakeAt
                  /\ sent'[t] = 0
                  /\ delays'[t] = << >>)]_vars

\* a dispatch served at 299 s from an entry still stamped 0, while the other
\* task's request is on the transport
C34_Witness ==
    \E t, u \in Tasks :
        /\ t # u
        /\ Ended(t) /\ sent[t] = 0 /\ req[t].use_cache
        /\ result[t].kind = "return"
        /\ doneAt[t] = CACHE_TTL - 1
        /\ cache[KeyOf(req[t])].timestamp = 0
        /\ pc[u] = "transport"
        /\ Len(admitted) >= 2

\* the dispatch of t ends in this step with a payload
EndsWithPayload(t) ==
    pc[t] # "idle" /\ pc'[t] = "idle" /\ result'[t].kind = "return" /\ result'[t].val # None

\* C35: no step of a dispatch other than the one that ends it with a payload
\* changes the cache, so a dispatch that ends in an error leaves the cache as
\* it was when the dispatch started, an expired entry of its fingerprint
\* included
C35_FailedDispatchKeepsCache ==
    [][\A t \in callers : ~EndsWithPayload(t) => cache' = cache]_vars

\* a second dispatch that found its entry expired, went to the network and
\* failed: the expired entry is still in the cache
C35_Witness ==
    \E t \in Tasks :
        /\ Ended(t)
        /\ dispatched[t] = 2
        /\ req[t].use_cache
        /\ result[t].kind = "raise"
        /\ sent[t] >= 1
        /\ KeyOf(req[t]) \in DOMAIN cache
        /\ doneAt[t] - cache[KeyOf(req[t])].timestamp >= CACHE_TTL

\* C36: every dispatch that is under way ends, returning a payload or raising
\* an error
C36_DispatchEndsWithOutcome ==
    \A t \in Tasks :
        (pc[t] # "idle")
            ~> (/\ pc[t] = "idle"
                /\ \/ result[t].kind = "raise"
                   \/ (result[t].kind = "return" /\ result[t].val # None))

\* the fingerprint of the genre list of a media type
GenreListKey(type) == KeyOf([GenreListRequestOf(type) EXCEPT !.params = WithApiKey(@)])

\* t starts serving a discover call with genres in this step
StartsGenreLookup(t) ==
    /\ tool[t].stage \in {"none", "done"}
    /\ tool'[t].stage = "first"
    /\ tool'[t].tool = "discover"
    /\ tool'[t].genre # << >>

\* C37: a genre list fetched for a discover call is stored in the cache, and
\* a discover call with genres that starts less than 300 s after the genre
\* list of its media type was stored gets the list from the cache, with no
\* admission and no transport call
C37_GenreListFromCache ==
    [][/\ \A t \in Tasks :
          (/\ StartsGenreLookup(t)
           /\ GenreListKey(tool'[t].type) \in DOMAIN cache
           /\ now - cache[GenreListKey(tool'[t].type)].timestamp < CACHE_TTL)
              => (/\ sent'[t] = 0
                  /\ pc'[t] = "idle"
                  /\ result'[t] = Return(cache[GenreListKey(tool'[t].type)].data)
                  /\ admitted' = admitted
                  /\ cache' = cache)
       /\ \A t \in Tasks :
             (/\ tool[t].tool = "discover"
              /\ tool[t].genre # << >>
              /\ tool[t].stage = "first"
              /\ EndsWithPayload(t))
                => (/\ GenreListKey(tool[t].type) \in DOMAIN cache'
                    /\ cache'[GenreListKey(tool[t].type)] =
                          [data |-> result'[t].val, timestamp |-> now])]_vars

\* two discover calls for one media type with different genres, 299 s apart:
\* three admissions in all, one for the genre list and one per discover request
C37_Witness ==
    /\ Len(responses) = 2
    /\ responses[1].tool = "discover" /\ responses[1].status = 200
    /\ responses[2].tool = "discover" /\ responses[2].status = 200
    /\ now = CACHE_TTL - 1
    /\ Len(admitted) = 3
    /\ admitted[3] = CACHE_TTL - 1
    /\ \E type \in MediaTypes :
          /\ GenreListKey(type) \in DOMAIN cache
          /\ cache[GenreListKey(type)].timestamp = 0
          /\ Cardinality({key \in DOMAIN cache : cache[key].timestamp = 0}) = 2

\* C31: while no credential is configured (TMDB_API_KEY unset or empty), no
\* client is installed or constructed, no tool call dispatches, is admitted or
\* sends a request, and every tool call ends with the configuration error.
C31_NoClientWithoutCredential ==
    api_key \in {None, ""} =>
        /\ client = None
        /\ constructed = 0
        /\ request_times = << >>
        /\ admitted = << >>
        /\ \A t \in Tasks : sent[t] = 0 /\ dispatched[t] = 0 /\ pc[t] = "idle"
        /\ \A i \in DOMAIN responses :
              /\ responses[i].cause = "ConfigurationError"
              /\ responses[i].status # 200
              /\ responses[i].detail = ConfigurationError.msg

\* three tool calls, valid and invalid, have ended on a server without credential
C31_Witness ==
    /\ api_key = None
    /\ Len(responses) = 3
    /\ \E i, j \in DOMAIN responses : responses[i].tool # responses[j].tool
    /\ client = None

\* the number of ended requests to a tool that did, or did not, return a result
RequestsOf(name, ok) ==
    Cardinality({i \in DOMAIN responses :
                    responses[i].tool = name /\ (responses[i].cause = "ok") = ok})

C39_NewestErrorsKept ==
    /\ Len(errors) <= MAX_ERRORS
    /\ Len(errors) = Min(Len(recorded), MAX_ERRORS)
    /\ \A i \in DOMAIN errors : errors[i] = recorded[Len(recorded) - Len(errors) + i]

\* more errors than the limit have been recorded, the last two of different
\* kinds
C39_Witness ==
    /\ Len(recorded) = MAX_ERRORS + 2
    /\ Len(errors) = MAX_ERRORS
    /\ recorded[MAX_ERRORS + 1].type # recorded[MAX_ERRORS + 2].type
    /\ errors[MAX_ERRORS].type = "RateLimitError"

\* the pieces of the raw text a failed tool call produced: the detail or text
\* of the error response, or the text of the exception
RawPieces(o) ==
    IF o.content # << >> THEN {o.content[1][i] : i \in DOMAIN o.content[1]} ELSE {o.error}

\* C32: the message the agent returns for a failed tool call contains no
\* piece of the error detail or exception text the failure produced.
C32_ReplyHidesRawText ==
    formatted.fn = "chat" =>
        \A i \in DOMAIN formatted.out : formatted.out[i] \notin RawPieces(provided.outcome)
====
